---- MODULE Spec2Model ----
(***************************************************************************)
(* A model of argh's run-time argument parser: the token loop of           *)
(* parse_struct_args (argh/src/lib.rs), the slot, option, positional and   *)
(* subcommand helpers it calls, and the tail of the derived from_args      *)
(* (argh_derive/src/lib.rs) that runs the requirement check.               *)
(*                                                                         *)
(* A Rust String is a TLA+ string; [a, b, c].concat() and push_str are \o. *)
(* One step of the model is one iteration of the 'parse_args loop, or the  *)
(* code that follows the loop, of the innermost active from_args call.     *)
(***************************************************************************)
EXTENDS Integers, Sequences, FiniteSets, TLC

\* Longest argument list given to the top-level from_args.
MaxArgs == 4

\* longest argument list given to the first of two calls compared with each other
MaxRedactArgs == 3

\* longest argument list of the calls checked for termination
MaxLiveArgs == 3

(***************************************************************************)
(* Small string helpers (str::starts_with, slice::contains, str::parse).   *)
(***************************************************************************)
\* the test of the dash letting a negative number through
starts_with_dash_NotNumber(s) ==
    /\ Len(s) > 0
    /\ SubSeq(s, 1, 1) = "-"
    /\ ~(Len(s) > 1 /\ SubSeq(s, 2, 2) \in {"0", "1", "2", "3", "4", "5", "6", "7", "8", "9"})

starts_with_dash(s) == Len(s) > 0 /\ SubSeq(s, 1, 1) = "-"

contains(seq, x) == \E i \in 1..Len(seq) : seq[i] = x

Digits == <<"0", "1", "2", "3", "4", "5", "6", "7", "8", "9">>

is_digit(c) == \E i \in 1..10 : Digits[i] = c

digit_value(c) == (CHOOSE i \in 1..10 : Digits[i] = c) - 1

RECURSIVE parse_digits(_, _)
parse_digits(s, acc) ==
    IF Len(s) = 0 THEN acc
    ELSE parse_digits(SubSeq(s, 2, Len(s)), acc * 10 + digit_value(SubSeq(s, 1, 1)))

\* <T as FromStr>::from_str(value).map_err(|x| x.to_string()) for T = String
\* and T = u32. The tokens of the model have fewer than ten digits, so the
\* overflow error of u32::from_str does not arise.
from_arg_value(ty, value) ==
    IF ty = "String" THEN [ok |-> TRUE, val |-> value, err |-> ""]
    ELSE IF Len(value) = 0
         THEN [ok |-> FALSE, val |-> 0, err |-> "cannot parse integer from empty string"]
    ELSE IF \E i \in 1..Len(value) : ~is_digit(SubSeq(value, i, i))
         THEN [ok |-> FALSE, val |-> 0, err |-> "invalid digit found in string"]
    ELSE [ok |-> TRUE, val |-> parse_digits(value, 0), err |-> ""]

\* The parse_func of the slots of redact_arg_values, which hold Strings: the
\* flag as it was typed for an option, the name of the positional for a
\* positional; the value is not looked at.
redact_parse_func(desc, arg) ==
    [ok |-> TRUE, val |-> IF desc.ty = "redact_option" THEN arg ELSE desc.name, err |-> ""]

\* The parse_func of a value slot, fn(arg, value) -> Result<T, String>;
\* from_args gives every slot the coercion of the value.
parse_func(desc, arg, value) ==
    IF desc.ty \in {"redact_option", "redact_positional"}
    THEN redact_parse_func(desc, arg)
    ELSE from_arg_value(desc.ty, value)

(***************************************************************************)
(* The schemas: what the derive hands to parse_struct_args for each        *)
(* command. Slot numbers in arg_to_slot are 1-based here.                  *)
(***************************************************************************)
DefaultHelpTriggers == <<"--help", "help">>

NoSubcommand == [present |-> FALSE, required |-> FALSE,
                 subcommands |-> <<>>, dynamic_subcommands |-> <<>>]

\* positional a: String, switch --b, required option --c, subcommand (required),
\* positional d: Vec<String>
TopSchema ==
    [help_triggers |-> DefaultHelpTriggers,
     arg_to_slot |-> << <<"--b", 1>>, <<"--c", 2>> >>,
     slots |-> << [kind |-> "Flag", long |-> "--b", optionality |-> "optional", ty |-> "bool"],
                  [kind |-> "Value", long |-> "--c", optionality |-> "required", ty |-> "String"] >>,
     positionals |-> << [name |-> "a", optionality |-> "required", ty |-> "String"],
                        [name |-> "d", optionality |-> "repeating", ty |-> "String"] >>,
     last_is_repeating |-> TRUE,
     last_is_greedy |-> FALSE,
     subcommand |-> [present |-> TRUE, required |-> TRUE,
                     subcommands |-> <<"first">>, dynamic_subcommands |-> <<>>]]

\* positional a: String, switch --b, option --c: Option<String>,
\* subcommand: Option<..>, greedy positional d: Vec<String>
GreedySchema ==
    [help_triggers |-> DefaultHelpTriggers,
     arg_to_slot |-> << <<"--b", 1>>, <<"--c", 2>> >>,
     slots |-> << [kind |-> "Flag", long |-> "--b", optionality |-> "optional", ty |-> "bool"],
                  [kind |-> "Value", long |-> "--c", optionality |-> "optional", ty |-> "String"] >>,
     positionals |-> << [name |-> "a", optionality |-> "required", ty |-> "String"],
                        [name |-> "d", optionality |-> "repeating", ty |-> "String"] >>,
     last_is_repeating |-> TRUE,
     last_is_greedy |-> TRUE,
     subcommand |-> [present |-> TRUE, required |-> FALSE,
                     subcommands |-> <<"first">>, dynamic_subcommands |-> <<>>]]

\* positionals a: String and b: u32, required options --c (short -c): String
\* and --r: u32
ReqSchema ==
    [help_triggers |-> DefaultHelpTriggers,
     arg_to_slot |-> << <<"-c", 1>>, <<"--c", 1>>, <<"--r", 2>> >>,
     slots |-> << [kind |-> "Value", long |-> "--c", optionality |-> "required", ty |-> "String"],
                  [kind |-> "Value", long |-> "--r", optionality |-> "required", ty |-> "u32"] >>,
     positionals |-> << [name |-> "a", optionality |-> "required", ty |-> "String"],
                        [name |-> "b", optionality |-> "required", ty |-> "u32"] >>,
     last_is_repeating |-> FALSE,
     last_is_greedy |-> FALSE,
     subcommand |-> NoSubcommand]

\* subcommand "first": switch --b, positional n: Option<String>,
\* subcommand: Option<..>
FirstSchema ==
    [help_triggers |-> DefaultHelpTriggers,
     arg_to_slot |-> << <<"--b", 1>> >>,
     slots |-> << [kind |-> "Flag", long |-> "--b", optionality |-> "optional", ty |-> "bool"] >>,
     positionals |-> << [name |-> "n", optionality |-> "optional", ty |-> "String"] >>,
     last_is_repeating |-> FALSE,
     last_is_greedy |-> FALSE,
     subcommand |-> [present |-> TRUE, required |-> FALSE,
                     subcommands |-> <<"second">>, dynamic_subcommands |-> <<>>]]

\* subcommand "second", declared with help_triggers("-h", "--help"):
\* positional p: Option<String>
SecondSchema ==
    [help_triggers |-> <<"-h", "--help">>,
     arg_to_slot |-> <<>>,
     slots |-> <<>>,
     positionals |-> << [name |-> "p", optionality |-> "optional", ty |-> "String"] >>,
     last_is_repeating |-> FALSE,
     last_is_greedy |-> FALSE,
     subcommand |-> NoSubcommand]

\* short_alias.rs: TopLevel with the required subcommand enum One | Two
TopLevel ==
    [help_triggers |-> DefaultHelpTriggers,
     arg_to_slot |-> <<>>,
     slots |-> <<>>,
     positionals |-> <<>>,
     last_is_repeating |-> FALSE,
     last_is_greedy |-> FALSE,
     subcommand |-> [present |-> TRUE, required |-> TRUE,
                     subcommands |-> <<"one", "two">>, dynamic_subcommands |-> <<>>]]

\* subcommand "one": switch --fooey
SubCommandOne ==
    [help_triggers |-> DefaultHelpTriggers,
     arg_to_slot |-> << <<"--fooey", 1>> >>,
     slots |-> << [kind |-> "Flag", long |-> "--fooey", optionality |-> "optional", ty |-> "bool"] >>,
     positionals |-> <<>>,
     last_is_repeating |-> FALSE,
     last_is_greedy |-> FALSE,
     subcommand |-> NoSubcommand]

\* subcommand "two": switch --bar
SubCommandTwo ==
    [help_triggers |-> DefaultHelpTriggers,
     arg_to_slot |-> << <<"--bar", 1>> >>,
     slots |-> << [kind |-> "Flag", long |-> "--bar", optionality |-> "optional", ty |-> "bool"] >>,
     positionals |-> <<>>,
     last_is_repeating |-> FALSE,
     last_is_greedy |-> FALSE,
     subcommand |-> NoSubcommand]

\* TwoSwitches (switches a and b with their short names), an option foo
\* with the synonym --bar, and a repeating option n: Vec<String>
FlagsSchema ==
    [help_triggers |-> DefaultHelpTriggers,
     arg_to_slot |-> << <<"--a", 1>>, <<"-a", 1>>, <<"--b", 2>>, <<"-b", 2>>,
                        <<"--foo", 3>>, <<"--bar", 3>>, <<"--n", 4>> >>,
     slots |-> << [kind |-> "Flag", long |-> "--a", optionality |-> "optional", ty |-> "bool"],
                  [kind |-> "Flag", long |-> "--b", optionality |-> "optional", ty |-> "bool"],
                  [kind |-> "Value", long |-> "--foo", optionality |-> "optional", ty |-> "String"],
                  [kind |-> "Value", long |-> "--n", optionality |-> "repeating", ty |-> "String"] >>,
     positionals |-> <<>>,
     last_is_repeating |-> FALSE,
     last_is_greedy |-> FALSE,
     subcommand |-> NoSubcommand]

\* GoUp of tests/env.rs: switch jump (-j), option height: usize with
\* env = "GO_UP_HEIGHT", option pilot_nickname: Option<String> with
\* env = "GO_UP_PILOT"
GoUp ==
    [help_triggers |-> DefaultHelpTriggers,
     arg_to_slot |-> << <<"--jump", 1>>, <<"-j", 1>>, <<"--height", 2>>,
                        <<"--pilot-nickname", 3>> >>,
     slots |-> << [kind |-> "Flag", long |-> "--jump", optionality |-> "optional", ty |-> "bool"],
                  [kind |-> "Value", long |-> "--height", optionality |-> "required", ty |-> "usize"],
                  [kind |-> "Value", long |-> "--pilot-nickname", optionality |-> "optional", ty |-> "String"] >>,
     positionals |-> <<>>,
     last_is_repeating |-> FALSE,
     last_is_greedy |-> FALSE,
     subcommand |-> NoSubcommand]

\* positional::WithSubcommand: positional a: String, subcommand b (required),
\* positional c: Vec<String>
WithSubcommand ==
    [help_triggers |-> DefaultHelpTriggers,
     arg_to_slot |-> <<>>,
     slots |-> <<>>,
     positionals |-> << [name |-> "a", optionality |-> "required", ty |-> "String"],
                        [name |-> "c", optionality |-> "repeating", ty |-> "String"] >>,
     last_is_repeating |-> TRUE,
     last_is_greedy |-> FALSE,
     subcommand |-> [present |-> TRUE, required |-> TRUE,
                     subcommands |-> <<"a">>, dynamic_subcommands |-> <<>>]]

\* positional::Subcommand, name = "a": positional a: String, positional
\* b: Vec<String>
Subcommand ==
    [help_triggers |-> DefaultHelpTriggers,
     arg_to_slot |-> <<>>,
     slots |-> <<>>,
     positionals |-> << [name |-> "a", optionality |-> "required", ty |-> "String"],
                        [name |-> "b", optionality |-> "repeating", ty |-> "String"] >>,
     last_is_repeating |-> TRUE,
     last_is_greedy |-> FALSE,
     subcommand |-> NoSubcommand]

\* the variables the process environment may hold
EnvNames == {"GO_UP_HEIGHT", "GO_UP_PILOT"}

\* #[argh(option, env = "..")]: the variable an option falls back to, "" for
\* an option declared without one
env_name(cmd, long) ==
    IF cmd = "goup" /\ long = "--height" THEN "GO_UP_HEIGHT"
    ELSE IF cmd = "goup" /\ long = "--pilot-nickname" THEN "GO_UP_PILOT"
    ELSE ""

\* The names a subcommand is declared with: name = "one", short = 'o'
\* (short_alias.rs) and synonyms = ["uno", ..] (synonyms.rs); the other
\* subcommands declare a name only.
declared_names(cmd) ==
    IF cmd = "one" THEN {"one", "o", "uno"} ELSE {cmd}

Commands == {"top", "greedy", "req", "first", "second", "toplevel", "one", "two", "flags", "goup",
             "WithSubcommand", "a"}

Schema(cmd) ==
    CASE cmd = "top" -> TopSchema
      [] cmd = "greedy" -> GreedySchema
      [] cmd = "req" -> ReqSchema
      [] cmd = "first" -> FirstSchema
      [] cmd = "second" -> SecondSchema
      [] cmd = "toplevel" -> TopLevel
      [] cmd = "one" -> SubCommandOne
      [] cmd = "two" -> SubCommandTwo
      [] cmd = "flags" -> FlagsSchema
      [] cmd = "goup" -> GoUp
      [] cmd = "WithSubcommand" -> WithSubcommand
      [] cmd = "a" -> Subcommand

\* The schema redact_arg_values hands to parse_struct_args: the same flags,
\* positionals and subcommands, with a RedactFlag for every switch and a
\* String slot for every option and positional.
RedactSchema(cmd) ==
    LET sch == Schema(cmd)
    IN  [sch EXCEPT
           !.slots = [i \in 1..Len(sch.slots) |->
                        [sch.slots[i] EXCEPT !.ty = IF sch.slots[i].kind = "Flag"
                                                    THEN "RedactFlag"
                                                    ELSE "redact_option"]],
           !.positionals = [i \in 1..Len(sch.positionals) |->
                              [sch.positionals[i] EXCEPT !.ty = "redact_positional"]]]

\* The fields of a command in declaration order, as <<kind, index>>.
field_order(cmd) ==
    CASE cmd = "top" -> << <<"positional", 1>>, <<"slot", 1>>, <<"slot", 2>>,
                           <<"subcommand", 0>>, <<"positional", 2>> >>
      [] cmd = "greedy" -> << <<"positional", 1>>, <<"slot", 1>>, <<"slot", 2>>,
                              <<"subcommand", 0>>, <<"positional", 2>> >>
      [] cmd = "req" -> << <<"positional", 1>>, <<"positional", 2>>,
                           <<"slot", 1>>, <<"slot", 2>> >>
      [] cmd = "first" -> << <<"slot", 1>>, <<"positional", 1>>, <<"subcommand", 0>> >>
      [] cmd = "second" -> << <<"positional", 1>> >>
      [] cmd = "toplevel" -> << <<"subcommand", 0>> >>
      [] cmd = "one" -> << <<"slot", 1>> >>
      [] cmd = "two" -> << <<"slot", 1>> >>
      [] cmd = "flags" -> << <<"slot", 1>>, <<"slot", 2>>, <<"slot", 3>>, <<"slot", 4>> >>

\* The commands from_env can be asked to parse, and the tokens tried on each.
TopLevelCommands == {"top", "greedy", "req", "toplevel", "flags"}

Tokens(cmd) ==
    CASE cmd = "top" -> {"--", "--help", "help", "-h", "--b", "--c", "first", "second", "x"}
      [] cmd = "greedy" -> {"--", "--help", "help", "--b", "--c", "first", "x"}
      [] cmd = "req" -> {"--", "--help", "-c", "--c", "--r", "x", "5"}
      [] cmd = "toplevel" -> {"help", "one", "o", "uno", "two", "t", "--fooey"}
      [] cmd = "flags" -> {"--help", "-a", "-ab", "--foo", "--bar", "--foo=x", "--fo", "--n", "x"}
      [] cmd = "goup" -> {"--help", "-j", "--height", "--pilot-nickname", "5", "x"}
      [] cmd = "MySubCommandEnum" -> {"--help", "--fooey", "--bar", "x"}
      [] cmd = "WithSubcommand" -> {"--help", "--", "a", "first", "-", "-5"}

\* the root commands whose options fall back to the environment
EnvCommands == {"goup"}

\* the root commands from_args alone is called on
FromArgsCommands == EnvCommands \cup {"WithSubcommand"}

\* what a variable of the environment holds: nothing, or its value
EnvValues == {<<>>, <<"10">>, <<"x">>}

\* the environments a command is run in; a command that reads no variable
\* is run in the empty one
Envs(cmd) ==
    IF cmd \in EnvCommands THEN [EnvNames -> EnvValues] ELSE {[n \in EnvNames |-> <<>>]}

RECURSIVE SeqsUpTo(_, _)
SeqsUpTo(S, n) ==
    IF n = 0 THEN {<<>>}
    ELSE LET shorter == SeqsUpTo(S, n - 1)
         IN  shorter \cup {Append(s, t) : s \in {u \in shorter : Len(u) = n - 1}, t \in S}

(***************************************************************************)
(* Slots.                                                                  *)
(***************************************************************************)
\* the integer types a switch may have, as far as counting reaches
IntegerTypes == {"i8", "u8"}

\* <ty>::MAX
MAX(ty) == IF ty = "i8" THEN 127 ELSE 255

\* <ty>::MIN
MIN(ty) == IF ty = "i8" THEN -128 ELSE 0

\* Flag::default
Flag_default(ty) == IF ty \in IntegerTypes THEN 0 ELSE FALSE

\* set_flag of an integer with a wrapping addition
set_flag_Wrapping(ty, v) ==
    IF ty \in IntegerTypes
    THEN IF v + 1 > MAX(ty) THEN MIN(ty) ELSE v + 1
    ELSE TRUE

\* impl Flag for bool: set_flag stores true; impl_flag_for_integers:
\* set_flag stores self.saturating_add(1)
set_flag(ty, v) ==
    IF ty \in IntegerTypes
    THEN IF v + 1 > MAX(ty) THEN MAX(ty) ELSE v + 1
    ELSE TRUE

\* ParseFlag::set_flag(arg): a Flag ignores arg, a RedactFlag keeps it
\* (slot = Some(arg.to_string()))
ParseFlag_set_flag(ty, v, arg) ==
    IF ty = "RedactFlag" THEN <<arg>> ELSE set_flag(ty, v)

\* fill_slot of an Option<T> slot without the is_some test: the second value
\* replaces the first
fill_slot_Overwrite(desc, slot, arg, value) ==
    LET r == parse_func(desc, arg, value)
    IN  IF ~r.ok THEN [ok |-> FALSE, slot |-> slot, err |-> r.err]
        ELSE IF desc.optionality = "repeating"
        THEN [ok |-> TRUE, slot |-> Append(slot, r.val), err |-> ""]
        ELSE [ok |-> TRUE, slot |-> <<r.val>>, err |-> ""]

\* ParseValueSlot::fill_slot. A Vec<T> slot is the sequence of its values and
\* an Option<T> slot is <<>> (None) or <<v>> (Some(v)).
fill_slot(desc, slot, arg, value) ==
    IF desc.optionality = "repeating"
    THEN LET r == parse_func(desc, arg, value)
         IN  IF r.ok THEN [ok |-> TRUE, slot |-> Append(slot, r.val), err |-> ""]
             ELSE [ok |-> FALSE, slot |-> slot, err |-> r.err]
    ELSE IF slot # <<>>
         THEN [ok |-> FALSE, slot |-> slot, err |-> "duplicate values provided"]
    ELSE LET r == parse_func(desc, arg, value)
         IN  IF r.ok THEN [ok |-> TRUE, slot |-> <<r.val>>, err |-> ""]
             ELSE [ok |-> FALSE, slot |-> slot, err |-> r.err]

unrecognized_argument(x) == "Unrecognized argument: " \o x \o "\n"

unrecognized_arg(arg) == "Unrecognized argument: " \o arg \o "\n"

\* find_slot matching a prefix of a registered name
find_slot_Prefix(arg_to_slot, arg) ==
    LET hit(i) == /\ Len(arg_to_slot[i][1]) >= Len(arg)
                  /\ SubSeq(arg_to_slot[i][1], 1, Len(arg)) = arg
    IN  IF \E i \in 1..Len(arg_to_slot) : hit(i)
        THEN arg_to_slot[CHOOSE i \in 1..Len(arg_to_slot) :
                            hit(i) /\ \A j \in 1..(i - 1) : ~hit(j)][2]
        ELSE 0

\* The find_map over arg_to_slot: the slot of the first entry named arg, or 0.
find_slot(arg_to_slot, arg) ==
    IF \E i \in 1..Len(arg_to_slot) : arg_to_slot[i][1] = arg
    THEN LET i == CHOOSE i \in 1..Len(arg_to_slot) :
                      /\ arg_to_slot[i][1] = arg
                      /\ \A j \in 1..(i - 1) : arg_to_slot[j][1] # arg
         IN  arg_to_slot[i][2]
    ELSE 0

\* ParseStructOptions::parse reporting a missing value under the option's
\* long name instead of the token that was typed.
ParseStructOptions_parse_LongName(sch, slots, arg, remaining_args) ==
    LET pos == find_slot(sch.arg_to_slot, arg)
    IN  IF pos = 0
        THEN [ok |-> FALSE, slots |-> slots, remaining_args |-> remaining_args,
              err |-> unrecognized_argument(arg)]
        ELSE IF sch.slots[pos].kind = "Flag"
        THEN [ok |-> TRUE,
              slots |-> [slots EXCEPT ![pos] = ParseFlag_set_flag(sch.slots[pos].ty, slots[pos], arg)],
              remaining_args |-> remaining_args, err |-> ""]
        ELSE IF remaining_args = <<>>
        THEN [ok |-> FALSE, slots |-> slots, remaining_args |-> remaining_args,
              err |-> "No value provided for option '" \o sch.slots[pos].long \o "'.\n"]
        ELSE LET value == Head(remaining_args)
                 r == fill_slot(sch.slots[pos], slots[pos], arg, value)
             IN  IF r.ok
                 THEN [ok |-> TRUE, slots |-> [slots EXCEPT ![pos] = r.slot],
                       remaining_args |-> Tail(remaining_args), err |-> ""]
                 ELSE [ok |-> FALSE, slots |-> slots,
                       remaining_args |-> Tail(remaining_args),
                       err |-> "Error parsing option '" \o arg \o "' with value '"
                               \o value \o "': " \o r.err \o "\n"]

\* ParseStructOptions::parse refusing a value that starts with a dash
ParseStructOptions_parse_ValueNotDash(sch, slots, arg, remaining_args) ==
    LET pos == find_slot(sch.arg_to_slot, arg)
    IN  IF pos = 0
        THEN [ok |-> FALSE, slots |-> slots, remaining_args |-> remaining_args,
              err |-> unrecognized_argument(arg)]
        ELSE IF sch.slots[pos].kind = "Flag"
        THEN [ok |-> TRUE,
              slots |-> [slots EXCEPT ![pos] = ParseFlag_set_flag(sch.slots[pos].ty, slots[pos], arg)],
              remaining_args |-> remaining_args, err |-> ""]
        ELSE IF remaining_args = <<>> \/ starts_with_dash(Head(remaining_args))
        THEN [ok |-> FALSE, slots |-> slots, remaining_args |-> remaining_args,
              err |-> "No value provided for option '" \o arg \o "'.\n"]
        ELSE LET value == Head(remaining_args)
                 r == fill_slot(sch.slots[pos], slots[pos], arg, value)
             IN  IF r.ok
                 THEN [ok |-> TRUE, slots |-> [slots EXCEPT ![pos] = r.slot],
                       remaining_args |-> Tail(remaining_args), err |-> ""]
                 ELSE [ok |-> FALSE, slots |-> slots,
                       remaining_args |-> Tail(remaining_args),
                       err |-> "Error parsing option '" \o arg \o "' with value '"
                               \o value \o "': " \o r.err \o "\n"]

\* ParseStructOptions::parse
ParseStructOptions_parse(sch, slots, arg, remaining_args) ==
    LET pos == find_slot(sch.arg_to_slot, arg)
    IN  IF pos = 0
        THEN [ok |-> FALSE, slots |-> slots, remaining_args |-> remaining_args,
              err |-> unrecognized_argument(arg)]
        ELSE IF sch.slots[pos].kind = "Flag"
        THEN [ok |-> TRUE,
              slots |-> [slots EXCEPT ![pos] = ParseFlag_set_flag(sch.slots[pos].ty, slots[pos], arg)],
              remaining_args |-> remaining_args, err |-> ""]
        ELSE IF remaining_args = <<>>
        THEN [ok |-> FALSE, slots |-> slots, remaining_args |-> remaining_args,
              err |-> "No value provided for option '" \o arg \o "'.\n"]
        ELSE LET value == Head(remaining_args)
                 r == fill_slot(sch.slots[pos], slots[pos], arg, value)
             IN  IF r.ok
                 THEN [ok |-> TRUE, slots |-> [slots EXCEPT ![pos] = r.slot],
                       remaining_args |-> Tail(remaining_args), err |-> ""]
                 ELSE [ok |-> FALSE, slots |-> slots,
                       remaining_args |-> Tail(remaining_args),
                       err |-> "Error parsing option '" \o arg \o "' with value '"
                               \o value \o "': " \o r.err \o "\n"]

\* ParseStructPositional::parse
ParseStructPositional_parse(desc, slot, arg) ==
    LET r == fill_slot(desc, slot, "", arg)
    IN  IF r.ok THEN r
        ELSE [ok |-> FALSE, slot |-> slot,
              err |-> "Error parsing positional argument '" \o desc.name
                      \o "' with value '" \o arg \o "': " \o r.err \o "\n"]

\* ParseStructPositionals::parse without the test for a repeating last
\* positional: the cursor always advances.
ParseStructPositionals_parse_AlwaysAdvance(sch, positionals, index, arg) ==
    IF index < Len(sch.positionals)
    THEN LET r == ParseStructPositional_parse(sch.positionals[index + 1],
                                              positionals[index + 1], arg)
         IN  IF ~r.ok
             THEN [ok |-> FALSE, positionals |-> positionals, index |-> index,
                   ended |-> FALSE, err |-> r.err]
             ELSE [ok |-> TRUE,
                   positionals |-> [positionals EXCEPT ![index + 1] = r.slot],
                   index |-> index + 1, ended |-> FALSE, err |-> ""]
    ELSE [ok |-> FALSE, positionals |-> positionals, index |-> index,
          ended |-> FALSE, err |-> unrecognized_arg(arg)]

\* ParseStructPositionals::parse returning last_is_greedy as soon as the
\* index arrives at the greedy positional
ParseStructPositionals_parse_EndsOnArrival(sch, positionals, index, arg) ==
    IF index < Len(sch.positionals)
    THEN LET r == ParseStructPositional_parse(sch.positionals[index + 1],
                                              positionals[index + 1], arg)
         IN  IF ~r.ok
             THEN [ok |-> FALSE, positionals |-> positionals, index |-> index,
                   ended |-> FALSE, err |-> r.err]
             ELSE IF sch.last_is_repeating /\ index = Len(sch.positionals) - 1
             THEN [ok |-> TRUE,
                   positionals |-> [positionals EXCEPT ![index + 1] = r.slot],
                   index |-> index, ended |-> sch.last_is_greedy, err |-> ""]
             ELSE [ok |-> TRUE,
                   positionals |-> [positionals EXCEPT ![index + 1] = r.slot],
                   index |-> index + 1,
                   ended |-> sch.last_is_greedy /\ index + 1 = Len(sch.positionals) - 1,
                   err |-> ""]
    ELSE [ok |-> FALSE, positionals |-> positionals, index |-> index,
          ended |-> FALSE, err |-> unrecognized_arg(arg)]

\* ParseStructPositionals::parse; index is 0-based as in the code, ended is
\* the returned bool.
ParseStructPositionals_parse(sch, positionals, index, arg) ==
    IF index < Len(sch.positionals)
    THEN LET r == ParseStructPositional_parse(sch.positionals[index + 1],
                                              positionals[index + 1], arg)
         IN  IF ~r.ok
             THEN [ok |-> FALSE, positionals |-> positionals, index |-> index,
                   ended |-> FALSE, err |-> r.err]
             ELSE IF sch.last_is_repeating /\ index = Len(sch.positionals) - 1
             THEN [ok |-> TRUE,
                   positionals |-> [positionals EXCEPT ![index + 1] = r.slot],
                   index |-> index, ended |-> sch.last_is_greedy, err |-> ""]
             ELSE [ok |-> TRUE,
                   positionals |-> [positionals EXCEPT ![index + 1] = r.slot],
                   index |-> index + 1, ended |-> FALSE, err |-> ""]
    ELSE [ok |-> FALSE, positionals |-> positionals, index |-> index,
          ended |-> FALSE, err |-> unrecognized_arg(arg)]

\* The loop of ParseStructSubCommand::parse: the name of the first static or
\* dynamic subcommand equal to arg, or "" when there is none.
match_subcommand(sub, arg) ==
    LET all == sub.subcommands \o sub.dynamic_subcommands
    IN  IF \E i \in 1..Len(all) : all[i] = arg
        THEN all[CHOOSE i \in 1..Len(all) :
                     /\ all[i] = arg
                     /\ \A j \in 1..(i - 1) : all[j] # arg]
        ELSE ""

prepend_help(args) == <<"help">> \o args

RECURSIVE join(_, _)
join(seq, sep) ==
    IF Len(seq) = 0 THEN ""
    ELSE IF Len(seq) = 1 THEN seq[1]
    ELSE seq[1] \o sep \o join(Tail(seq), sep)

\* help_func: the generated help text, of which the model keeps the usage
\* line with the command path.
help_func(cmd_name) == "Usage: " \o join(cmd_name, " ") \o "\n"

(***************************************************************************)
(* The requirement check.                                                  *)
(***************************************************************************)
RECURSIVE select_names_AnyEmpty(_, _, _)
\* select_names without the test that the field is required
select_names_AnyEmpty(descs, slots, field) ==
    IF Len(descs) = 0 THEN <<>>
    ELSE LET rest == select_names_AnyEmpty(Tail(descs), Tail(slots), field)
         IN  IF Head(slots) = <<>>
             THEN <<Head(descs)[field]>> \o rest
             ELSE rest

RECURSIVE select_names(_, _, _)
\* the names of the required descriptors, in declaration order, whose slot
\* is None
select_names(descs, slots, field) ==
    IF Len(descs) = 0 THEN <<>>
    ELSE LET rest == select_names(Tail(descs), Tail(slots), field)
         IN  IF Head(descs).optionality = "required" /\ Head(slots) = <<>>
             THEN <<Head(descs)[field]>> \o rest
             ELSE rest

\* The fallback to the environment, from slot i on: an option declared with
\* env = NAME whose slot no command-line token filled takes the value of
\* NAME, coerced as a supplied value is.
RECURSIVE env_fallback(_, _, _, _)
env_fallback(sch, f, e, i) ==
    IF i > Len(sch.slots) THEN [ok |-> TRUE, frame |-> f, err |-> ""]
    ELSE LET d == sch.slots[i]
             n == env_name(f.cmd, d.long)
         IN  IF d.kind = "Value" /\ n # "" /\ f.slots[i] = <<>> /\ e[n] # <<>>
             THEN LET r == from_arg_value(d.ty, e[n][1])
                  IN  IF r.ok
                      THEN env_fallback(sch, [f EXCEPT !.slots[i] = <<r.val>>], e, i + 1)
                      ELSE [ok |-> FALSE, frame |-> f,
                            err |-> "Error parsing environment variable '" \o n
                                    \o "' with value '" \o e[n][1] \o "': "
                                    \o r.err \o "\n"]
             ELSE env_fallback(sch, f, e, i + 1)

\* append_missing_requirements left out of redact_arg_values
append_missing_requirements_NotWhenRedacting(sch, f) ==
    IF f.redact
    THEN [positional_args |-> <<>>, options |-> <<>>, subcommands |-> <<>>]
    ELSE [positional_args |-> select_names(sch.positionals, f.positionals, "name"),
          options |-> select_names(
                         SelectSeq(sch.slots, LAMBDA d : d.kind = "Value"),
                         LET idx == SelectSeq([i \in 1..Len(sch.slots) |-> i],
                                              LAMBDA i : sch.slots[i].kind = "Value")
                         IN  [k \in 1..Len(idx) |-> f.slots[idx[k]]],
                         "long"),
          subcommands |-> IF sch.subcommand.present /\ sch.subcommand.required
                             /\ f.subcommand = <<>>
                          THEN <<sch.subcommand.subcommands \o sch.subcommand.dynamic_subcommands>>
                          ELSE <<>>]

\* append_missing_requirements: the MissingRequirements built by the tail of
\* the derived from_args. subcommands is <<>> for None, <<list>> for Some.
append_missing_requirements(sch, f) ==
    [positional_args |-> select_names(sch.positionals, f.positionals, "name"),
     options |-> select_names(
                    SelectSeq(sch.slots, LAMBDA d : d.kind = "Value"),
                    LET idx == SelectSeq([i \in 1..Len(sch.slots) |-> i],
                                         LAMBDA i : sch.slots[i].kind = "Value")
                    IN  [k \in 1..Len(idx) |-> f.slots[idx[k]]],
                    "long"),
     subcommands |-> IF sch.subcommand.present /\ sch.subcommand.required
                        /\ f.subcommand = <<>>
                     THEN <<sch.subcommand.subcommands \o sch.subcommand.dynamic_subcommands>>
                     ELSE <<>>]

NEWLINE_INDENT == "\n    "

RECURSIVE push_names(_, _)
push_names(output, names) ==
    IF Len(names) = 0 THEN output
    ELSE push_names(output \o NEWLINE_INDENT \o Head(names), Tail(names))

\* err_on_any without the final push('\n')
err_on_any_NoFinalNewline(mr) ==
    IF mr.options = <<>> /\ mr.subcommands = <<>> /\ mr.positional_args = <<>>
    THEN [ok |-> TRUE, output |-> ""]
    ELSE LET o1 == IF mr.positional_args # <<>>
                   THEN push_names("Required positional arguments not provided:",
                                   mr.positional_args)
                   ELSE ""
             o2 == IF mr.options # <<>>
                   THEN push_names(
                            (IF mr.positional_args # <<>> THEN o1 \o "\n" ELSE o1)
                                \o "Required options not provided:",
                            mr.options)
                   ELSE o1
             o3 == IF mr.subcommands # <<>>
                   THEN push_names(
                            (IF mr.options # <<>> THEN o2 \o "\n" ELSE o2)
                                \o "One of the following subcommands must be present:"
                                \o NEWLINE_INDENT \o "help",
                            mr.subcommands[1])
                   ELSE o2
         IN  [ok |-> FALSE, output |-> o3]

\* MissingRequirements::err_on_any
err_on_any(mr) ==
    IF mr.options = <<>> /\ mr.subcommands = <<>> /\ mr.positional_args = <<>>
    THEN [ok |-> TRUE, output |-> ""]
    ELSE LET o1 == IF mr.positional_args # <<>>
                   THEN push_names("Required positional arguments not provided:",
                                   mr.positional_args)
                   ELSE ""
             o2 == IF mr.options # <<>>
                   THEN push_names(
                            (IF mr.positional_args # <<>> THEN o1 \o "\n" ELSE o1)
                                \o "Required options not provided:",
                            mr.options)
                   ELSE o1
             o3 == IF mr.subcommands # <<>>
                   THEN push_names(
                            (IF mr.options # <<>> THEN o2 \o "\n" ELSE o2)
                                \o "One of the following subcommands must be present:"
                                \o NEWLINE_INDENT \o "help",
                            mr.subcommands[1])
                   ELSE o2
         IN  [ok |-> FALSE, output |-> o3 \o "\n"]

(***************************************************************************)
(* State. stack holds one frame per active from_args call, the innermost   *)
(* last; result is what the top-level from_args returned.                  *)
(***************************************************************************)
VARIABLES stack, result, env, prior

vars == <<stack, result, env, prior>>

NoResult == [kind |-> "none", output |-> "", status |-> "", value |-> <<>>]

\* The process environment: the value of each variable that is set.
NoEnv == [n \in EnvNames |-> <<>>]

\* What an earlier call on the same command returned (none at first): its
\* result, the arguments it was given and the call that follows it.
NoPrior == [kind |-> "none", output |-> "", status |-> "", value |-> <<>>,
            args |-> <<>>, second |-> ""]

\* EarlyExit { output, status }
EarlyExit(output, status) ==
    [kind |-> "Err", output |-> output, status |-> status, value |-> <<>>]

\* From<String> building an early exit of success disposition
EarlyExit_from_Success(err_msg) == EarlyExit(err_msg, "Ok")

\* impl From<String> for EarlyExit
EarlyExit_from(err_msg) == EarlyExit(err_msg, "Err")

\* The locals of from_args and parse_struct_args at entry.
new_frame(cmd, cmd_name, args) ==
    [cmd |-> cmd,
     cmd_name |-> cmd_name,
     args |-> args,
     remaining_args |-> args,
     help |-> FALSE,
     positional_index |-> 0,
     options_ended |-> FALSE,
     slots |-> [i \in 1..Len(Schema(cmd).slots) |->
                   IF Schema(cmd).slots[i].kind = "Flag"
                   THEN Flag_default(Schema(cmd).slots[i].ty) ELSE <<>>],
     positionals |-> [i \in 1..Len(Schema(cmd).positionals) |-> <<>>],
     subcommand |-> <<>>,
     pc |-> "scan",
     redact |-> FALSE]

\* The locals of redact_arg_values at entry: every slot is None or empty.
new_redact_frame(cmd, cmd_name, args) ==
    [new_frame(cmd, cmd_name, args) EXCEPT
        !.slots = [i \in 1..Len(Schema(cmd).slots) |-> <<>>],
        !.redact = TRUE]

\* The variants of the subcommand enum MySubCommandEnum, by the COMMAND.name
\* of their types.
variants == <<"one", "two">>

\* the command-name paths from_args of the enum is called with
EnumCommandNames ==
    {<<>>, <<"fooey">>, <<"o">>, <<"one">>, <<"cmdname", "two">>, <<"one", "cmdname">>}

\* a panic of the call, with its message
Panic(message) == [kind |-> "panic", output |-> message, status |-> "panic", value |-> <<>>]

\* from_args of the enum at entry
enum_frame(cmd_name, args) ==
    [cmd |-> "MySubCommandEnum",
     cmd_name |-> cmd_name,
     args |-> args,
     remaining_args |-> args,
     help |-> FALSE,
     positional_index |-> 0,
     options_ended |-> FALSE,
     slots |-> <<>>,
     positionals |-> <<>>,
     subcommand |-> <<>>,
     pc |-> "enum",
     redact |-> FALSE]

\* a call of from_args with at most n arguments
InitUpTo(n) ==
    /\ \/ \E cmd \in TopLevelCommands \cup FromArgsCommands :
            /\ \E args \in SeqsUpTo(Tokens(cmd), n) :
                  stack = <<new_frame(cmd, <<"cmdname">>, args)>>
            /\ env \in Envs(cmd)
       \/ /\ \E cmd_name \in EnumCommandNames :
               \E args \in SeqsUpTo(Tokens("MySubCommandEnum"), n) :
                  stack = <<enum_frame(cmd_name, args)>>
          /\ env = NoEnv
    /\ result = NoResult
    /\ prior = NoPrior

Init == InitUpTo(MaxArgs)

Top == stack[Len(stack)]

frame_schema(f) == IF f.redact THEN RedactSchema(f.cmd) ELSE Schema(f.cmd)

TopSchemaOf == frame_schema(Top)

SetTop(f) == [stack EXCEPT ![Len(stack)] = f]

\* the loop going on after an error was raised, as if errors were collected
\* and not returned with `?`
Scanning_AfterError ==
    /\ Top.pc = "scan"
    /\ Top.remaining_args # <<>>

\* `while let Some(&next_arg) = remaining_args.first()` has a token to take
Scanning ==
    /\ result.kind = "none"
    /\ Top.pc = "scan"
    /\ Top.remaining_args # <<>>

next_arg == Head(Top.remaining_args)

is_help_trigger == contains(TopSchemaOf.help_triggers, next_arg) /\ ~Top.options_ended

\* the test of the dash made whatever options_ended holds
is_flag_shaped_Always == starts_with_dash(next_arg)

is_flag_shaped == starts_with_dash(next_arg) /\ ~Top.options_ended

\* a subcommand tried only once the positionals before it are filled
matched_subcommand_AfterPositionals ==
    IF TopSchemaOf.subcommand.present
       /\ \A k \in 1..Len(TopSchemaOf.positionals) :
             TopSchemaOf.positionals[k].optionality = "required" => Top.positionals[k] # <<>>
    THEN match_subcommand(TopSchemaOf.subcommand, next_arg)
    ELSE ""

\* what parse_subcommand.parse finds for next_arg ("" when the schema has no
\* subcommand or no name matches)
matched_subcommand ==
    IF TopSchemaOf.subcommand.present
    THEN match_subcommand(TopSchemaOf.subcommand, next_arg)
    ELSE ""

\* lib.rs 916-919
\* the `continue` of the help test taken without the token having been
\* removed from remaining_args
HelpTrigger_NoAdvance ==
    /\ Scanning
    /\ is_help_trigger
    /\ stack' = SetTop([Top EXCEPT !.help = TRUE])
    /\ UNCHANGED <<result, env, prior>>

HelpTrigger ==
    /\ Scanning
    /\ is_help_trigger
    /\ stack' = SetTop([Top EXCEPT !.remaining_args = Tail(@), !.help = TRUE])
    /\ UNCHANGED <<result, env, prior>>

\* lib.rs 921-925
Separator ==
    /\ Scanning
    /\ ~is_help_trigger
    /\ is_flag_shaped
    /\ next_arg = "--"
    /\ stack' = SetTop([Top EXCEPT !.remaining_args = Tail(@), !.options_ended = TRUE])
    /\ UNCHANGED <<result, env, prior>>

\* The text of lib.rs 928; the module's lexer has no backquote inside a
\* string, so the two backquotes around help are written as apostrophes.
TrailingArgumentsMsg == "Trailing arguments are not allowed after 'help'."

\* lib.rs 927-929
TrailingAfterHelp ==
    /\ Scanning
    /\ ~is_help_trigger
    /\ is_flag_shaped
    /\ next_arg # "--"
    /\ Top.help
    /\ stack' = SetTop([Top EXCEPT !.remaining_args = Tail(@)])
    /\ result' = EarlyExit_from(TrailingArgumentsMsg)
    /\ UNCHANGED <<env, prior>>

\* lib.rs 931-932
ParseOption ==
    /\ Scanning
    /\ ~is_help_trigger
    /\ is_flag_shaped
    /\ next_arg # "--"
    /\ ~Top.help
    /\ LET r == ParseStructOptions_parse(TopSchemaOf, Top.slots, next_arg,
                                         Tail(Top.remaining_args))
       IN  /\ stack' = SetTop([Top EXCEPT !.remaining_args = r.remaining_args,
                                          !.slots = r.slots])
           /\ result' = IF r.ok THEN result ELSE EarlyExit_from(r.err)
    /\ UNCHANGED <<env, prior>>

\* lib.rs 935-936 and 1102-1114: a subcommand matched, the child from_args
\* starts
SubcommandDispatch ==
    /\ Scanning
    /\ ~is_help_trigger
    /\ ~is_flag_shaped
    /\ matched_subcommand # ""
    /\ LET command == Append(Top.cmd_name, matched_subcommand)
           rest == Tail(Top.remaining_args)
           child_args == IF Top.help THEN prepend_help(rest) ELSE rest
       IN  stack' = Append(SetTop([Top EXCEPT !.remaining_args = rest, !.pc = "call"]),
                           IF Top.redact
                           THEN new_redact_frame(matched_subcommand, command, child_args)
                           ELSE new_frame(matched_subcommand, command, child_args))
    /\ UNCHANGED <<result, env, prior>>

\* lib.rs 943
ParsePositional ==
    /\ Scanning
    /\ ~is_help_trigger
    /\ ~is_flag_shaped
    /\ matched_subcommand = ""
    /\ LET r == ParseStructPositionals_parse(TopSchemaOf, Top.positionals,
                                             Top.positional_index, next_arg)
       IN  /\ stack' = SetTop([Top EXCEPT !.remaining_args = Tail(@),
                                          !.positionals = r.positionals,
                                          !.positional_index = r.index,
                                          !.options_ended = @ \/ r.ended])
           /\ result' = IF r.ok THEN result ELSE EarlyExit_from(r.err)
    /\ UNCHANGED <<env, prior>>

\* the loop of the innermost call is over: no token left, or `break 'parse_args`
LoopEnded ==
    /\ result.kind = "none"
    /\ \/ Top.pc = "scan" /\ Top.remaining_args = <<>>
       \/ Top.pc = "after_loop"

\* the end of parse_struct_args with the requirement check made before the
\* test of help
ExitHelp_ChecksFirst ==
    /\ LoopEnded
    /\ Top.help
    /\ LET e == err_on_any(append_missing_requirements(TopSchemaOf, Top))
       IN  result' = IF e.ok THEN EarlyExit(help_func(Top.cmd_name), "Ok")
                     ELSE EarlyExit_from(e.output)
    /\ UNCHANGED <<stack, env, prior>>

\* lib.rs 946-947
ExitHelp ==
    /\ LoopEnded
    /\ Top.help
    /\ result' = EarlyExit(help_func(Top.cmd_name), "Ok")
    /\ UNCHANGED <<stack, env, prior>>

\* the value from_args builds from the locals: Ok(Self { .. })
value_of(f) ==
    [cmd |-> f.cmd, slots |-> f.slots, positionals |-> f.positionals,
     subcommand |-> f.subcommand]

RECURSIVE redacted_fields(_, _)
redacted_fields(f, order) ==
    IF order = <<>> THEN <<>>
    ELSE LET kind == Head(order)[1]
             i == Head(order)[2]
         IN  (IF kind = "slot" THEN f.slots[i]
              ELSE IF kind = "positional" THEN f.positionals[i]
              ELSE IF f.subcommand = <<>> THEN <<>> ELSE f.subcommand[1])
             \o redacted_fields(f, Tail(order))

\* the list redact_arg_values builds from the locals: the last element of
\* the command name, then what each field holds, a subcommand field holding
\* the list its child returned
redacted(f) ==
    <<f.cmd_name[Len(f.cmd_name)]>> \o redacted_fields(f, field_order(f.cmd))

\* what the call of the innermost frame returns with Ok
return_value(f) == IF f.redact THEN redacted(f) ELSE value_of(f)

\* the locals once the options left empty by the command line have taken
\* their values from the environment
AfterEnv == env_fallback(TopSchemaOf, Top, env, 1)

\* a value of the environment fails its coercion
EnvErrorExit ==
    /\ LoopEnded
    /\ ~Top.help
    /\ ~AfterEnv.ok
    /\ result' = EarlyExit_from(AfterEnv.err)
    /\ UNCHANGED <<stack, env, prior>>

\* the requirement check made on the locals as the command line left them
MissingRequirementsExit_BeforeEnv ==
    /\ LoopEnded
    /\ ~Top.help
    /\ AfterEnv.ok
    /\ LET e == err_on_any(append_missing_requirements(TopSchemaOf, Top))
       IN  /\ ~e.ok
           /\ result' = EarlyExit_from(e.output)
    /\ UNCHANGED <<stack, env, prior>>

\* derive lib.rs 386-390: the requirement check fails
MissingRequirementsExit ==
    /\ LoopEnded
    /\ ~Top.help
    /\ AfterEnv.ok
    /\ LET e == err_on_any(append_missing_requirements(TopSchemaOf, AfterEnv.frame))
       IN  /\ ~e.ok
           /\ result' = EarlyExit_from(e.output)
    /\ UNCHANGED <<stack, env, prior>>

\* the return of the child without the `break 'parse_args`: the parent
\* goes on with its loop
ReturnToParent_NoBreak ==
    /\ LoopEnded
    /\ ~Top.help
    /\ AfterEnv.ok
    /\ err_on_any(append_missing_requirements(TopSchemaOf, AfterEnv.frame)).ok
    /\ Len(stack) > 1
    /\ LET parent == stack[Len(stack) - 1]
       IN  stack' = Append(SubSeq(stack, 1, Len(stack) - 2),
                           [parent EXCEPT !.subcommand = <<return_value(AfterEnv.frame)>>,
                                          !.help = FALSE,
                                          !.pc = "scan"])
    /\ UNCHANGED <<result, env, prior>>

\* derive lib.rs 392-394 in a child, then lib.rs 936-939 in its parent
ReturnToParent ==
    /\ LoopEnded
    /\ ~Top.help
    /\ AfterEnv.ok
    /\ err_on_any(append_missing_requirements(TopSchemaOf, AfterEnv.frame)).ok
    /\ Len(stack) > 1
    /\ LET parent == stack[Len(stack) - 1]
       IN  stack' = Append(SubSeq(stack, 1, Len(stack) - 2),
                           [parent EXCEPT !.subcommand = <<return_value(AfterEnv.frame)>>,
                                          !.help = FALSE,
                                          !.pc = "after_loop"])
    /\ UNCHANGED <<result, env, prior>>

\* derive lib.rs 392-394 in the top-level call
ReturnOk ==
    /\ LoopEnded
    /\ ~Top.help
    /\ AfterEnv.ok
    /\ err_on_any(append_missing_requirements(TopSchemaOf, AfterEnv.frame)).ok
    /\ Len(stack) = 1
    /\ result' = [kind |-> "Ok", output |-> "", status |-> "", value |-> <<return_value(AfterEnv.frame)>>]
    /\ UNCHANGED <<stack, env, prior>>

\* a step of parse_struct_args or of the code around it
ParseStep ==
    \/ HelpTrigger
    \/ Separator
    \/ TrailingAfterHelp
    \/ ParseOption
    \/ SubcommandDispatch
    \/ ParsePositional
    \/ ExitHelp
    \/ MissingRequirementsExit
    \/ ReturnToParent
    \/ ReturnOk

\* derive lib.rs 669-684: from_args of a subcommand enum takes the last
\* element of the command name, which it expects to be there, and calls
\* from_args of the variant whose COMMAND.name it is; the code after the
\* comparisons is marked unreachable
EnumFromArgs ==
    /\ result.kind = "none"
    /\ Top.pc = "enum"
    /\ IF Top.cmd_name = <<>>
       THEN /\ result' = Panic("no subcommand name")
            /\ UNCHANGED stack
       ELSE LET subcommand_name == Top.cmd_name[Len(Top.cmd_name)]
            IN  IF contains(variants, subcommand_name)
                THEN /\ stack' = <<new_frame(subcommand_name, Top.cmd_name, Top.args)>>
                     /\ UNCHANGED result
                ELSE /\ result' = Panic("no subcommand matched")
                     /\ UNCHANGED stack
    /\ UNCHANGED <<env, prior>>

Next == ParseStep \/ EnvErrorExit \/ EnumFromArgs

Spec == Init /\ [][Next]_vars

\* from_args is a sequential call: while it has not returned, its next step
\* is taken
InitLive == InitUpTo(MaxLiveArgs)

SpecLive == InitLive /\ [][Next]_vars /\ WF_vars(Next)

(***************************************************************************)
(* redact_arg_values: the same traversal with the redaction slots. A       *)
(* behaviour of SpecRedact is a call of redact_arg_values, followed by a   *)
(* call of from_args on the same arguments or by a call of                 *)
(* redact_arg_values on arguments that differ in one token.                *)
(***************************************************************************)
InitRedact ==
    /\ \E cmd \in TopLevelCommands :
         \E args \in SeqsUpTo(Tokens(cmd), MaxRedactArgs) :
            stack = <<new_redact_frame(cmd, <<"cmdname">>, args)>>
    /\ result = NoResult
    /\ env = NoEnv
    /\ prior = NoPrior

\* the first call has returned
FirstCallReturned ==
    /\ result.kind # "none"
    /\ prior.kind = "none"
    /\ stack[1].redact

keep_prior(second) ==
    [kind |-> result.kind, output |-> result.output, status |-> result.status,
     value |-> result.value, args |-> stack[1].args, second |-> second]

\* from_args is called with the arguments redact_arg_values was given
StartPrimary ==
    /\ FirstCallReturned
    /\ stack' = <<new_frame(stack[1].cmd, stack[1].cmd_name, stack[1].args)>>
    /\ result' = NoResult
    /\ prior' = keep_prior("from_args")
    /\ UNCHANGED env

\* redact_arg_values, having returned a list, is called with arguments that
\* differ from the first ones in one token
StartVariant ==
    /\ FirstCallReturned
    /\ result.kind = "Ok"
    /\ \E i \in 1..Len(stack[1].args) :
         \E t \in Tokens(stack[1].cmd) \ {stack[1].args[i]} :
            stack' = <<new_redact_frame(stack[1].cmd, stack[1].cmd_name,
                                        [stack[1].args EXCEPT ![i] = t])>>
    /\ result' = NoResult
    /\ prior' = keep_prior("redact_arg_values")
    /\ UNCHANGED env

NextRedact ==
    \/ ParseStep
    \/ StartPrimary
    \/ StartVariant

SpecRedact == InitRedact /\ [][NextRedact]_vars

(***************************************************************************)
(* Helpers of the properties.                                              *)
(***************************************************************************)
\* the tokens a frame has taken from its argument list so far
consumed(f) == SubSeq(f.args, 1, Len(f.args) - Len(f.remaining_args))

starts_with(s, prefix) ==
    Len(s) >= Len(prefix) /\ SubSeq(s, 1, Len(prefix)) = prefix

\* the places where sub occurs in s
occurrences(s, sub) ==
    {i \in 1..(Len(s) - Len(sub) + 1) : SubSeq(s, i, i + Len(sub) - 1) = sub}

is_option_token(sch, t) ==
    find_slot(sch.arg_to_slot, t) # 0 /\ sch.slots[find_slot(sch.arg_to_slot, t)].kind = "Value"

(***************************************************************************)
(* C1. After the separator `--` has been seen, every later token of that   *)
(* level is positional content, in input order: it starts no child parse,  *)
(* sets no switch or option and does not trigger help, and it is either    *)
(* stored in a positional slot or refused by positional handling; the `--` *)
(* itself is not stored.                                                   *)
(***************************************************************************)
C1_SeparatorForcesPositional ==
    [][ /\ (Scanning /\ Top.options_ended) =>
             LET n == Len(stack)
                 t == next_arg
             IN  /\ Len(stack') = n
                 /\ stack'[n].slots = Top.slots
                 /\ stack'[n].help = Top.help
                 /\ \/ result'.kind = "Err" /\ result'.status = "Err"
                    \/ \E k \in 1..Len(Top.positionals) :
                          /\ \A j \in (k + 1)..Len(Top.positionals) : Top.positionals[j] = <<>>
                          /\ from_arg_value(TopSchemaOf.positionals[k].ty, t).ok
                          /\ stack'[n].positionals
                               = [Top.positionals EXCEPT ![k] =
                                    Append(@, from_arg_value(TopSchemaOf.positionals[k].ty, t).val)]
        /\ (Scanning /\ ~Top.options_ended /\ ~is_help_trigger /\ next_arg = "--") =>
             /\ Len(stack') = Len(stack)
             /\ stack'[Len(stack)].options_ended
             /\ stack'[Len(stack)].positionals = Top.positionals
      ]_vars

(***************************************************************************)
(* C2. Once a token has been stored in the greedy last positional, every   *)
(* later token is appended to that positional verbatim: no switch or       *)
(* option is set, help is not triggered, no child parse starts and no      *)
(* error is raised.                                                        *)
(***************************************************************************)
C2_GreedyAbsorbsRest ==
    [][ (/\ Scanning
         /\ TopSchemaOf.last_is_greedy
         /\ Top.positionals[Len(Top.positionals)] # <<>>) =>
            LET n == Len(stack)
                last == Len(Top.positionals)
            IN  /\ Len(stack') = n
                /\ result' = result
                /\ stack'[n].slots = Top.slots
                /\ stack'[n].help = Top.help
                /\ stack'[n].positionals[last] = Append(Top.positionals[last], next_arg)
      ]_vars

(***************************************************************************)
(* C3. With a repeating, non-greedy last positional the Nth token that is  *)
(* neither a flag nor a subcommand name fills the Nth positional and every *)
(* further one is appended, in input order, to the last positional; the    *)
(* cursor stays on the last positional, a surplus token is never answered  *)
(* with `Unrecognized argument`, and the switches between such tokens are  *)
(* still set.                                                              *)
(***************************************************************************)
RECURSIVE C3_content(_, _, _)
\* the tokens of toks that are positional content for sch: not a help
\* trigger, not `--`, not a flag or an option's value, and before the first
\* subcommand name
C3_content(sch, toks, ended) ==
    IF toks = <<>> THEN <<>>
    ELSE LET t == Head(toks)
         IN  IF ~ended /\ contains(sch.help_triggers, t)
             THEN C3_content(sch, Tail(toks), ended)
             ELSE IF ~ended /\ starts_with_dash(t)
             THEN IF t = "--" THEN C3_content(sch, Tail(toks), TRUE)
                  ELSE IF is_option_token(sch, t) /\ Len(toks) > 1
                  THEN C3_content(sch, Tail(Tail(toks)), ended)
                  ELSE C3_content(sch, Tail(toks), ended)
             ELSE IF contains(sch.subcommand.subcommands, t) THEN <<>>
             ELSE <<t>> \o C3_content(sch, Tail(toks), ended)

RECURSIVE C3_switches(_, _, _)
\* the tokens of toks that are given as flags
C3_switches(sch, toks, ended) ==
    IF toks = <<>> THEN {}
    ELSE LET t == Head(toks)
         IN  IF ~ended /\ contains(sch.help_triggers, t)
             THEN C3_switches(sch, Tail(toks), ended)
             ELSE IF ~ended /\ starts_with_dash(t)
             THEN IF t = "--" THEN {}
                  ELSE IF is_option_token(sch, t) /\ Len(toks) > 1
                  THEN C3_switches(sch, Tail(Tail(toks)), ended)
                  ELSE {t} \cup C3_switches(sch, Tail(toks), ended)
             ELSE IF contains(sch.subcommand.subcommands, t) THEN {}
             ELSE C3_switches(sch, Tail(toks), ended)

C3_RepeatingAbsorbsSurplus ==
    \A i \in 1..Len(stack) :
        stack[i].pc # "enum" =>
        LET f == stack[i]
            sch == Schema(f.cmd)
            N == Len(sch.positionals)
            c == C3_content(sch, consumed(f), FALSE)
        IN  (sch.last_is_repeating /\ ~sch.last_is_greedy) =>
               /\ f.positional_index < N
               /\ result.status # "Err" =>
                    /\ \A k \in 1..(N - 1) :
                          f.positionals[k] = IF Len(c) >= k THEN <<c[k]>> ELSE <<>>
                    /\ f.positionals[N] = SubSeq(c, N, Len(c))
                    /\ \A k \in 1..Len(sch.slots) :
                          sch.slots[k].kind = "Flag" =>
                             (f.slots[k] <=> \E t \in C3_switches(sch, consumed(f), FALSE) :
                                                 find_slot(sch.arg_to_slot, t) = k)
               /\ (result.status = "Err" /\ i = Len(stack) /\ consumed(f) # <<>>
                     /\ result.output = unrecognized_arg(consumed(f)[Len(consumed(f))])) =>
                    /\ starts_with_dash(consumed(f)[Len(consumed(f))])
                    /\ ~f.options_ended

\* x x --b x: the second and the fourth token are both in the repeating
\* positional and the switch between them is set
C3_Witness ==
    /\ stack[1].cmd = "top"
    /\ Len(stack[1].args) > 2
    /\ stack[1].args[3] = "--b"
    /\ stack[1].positionals[1] # <<>>
    /\ Len(stack[1].positionals[2]) = 2
    /\ stack[1].slots[1]

(***************************************************************************)
(* C4. A registered switch takes no token besides its own; a registered    *)
(* option takes exactly the one token that follows it as its value,        *)
(* whatever that token is; an option that is the last token ends the parse *)
(* with the failure early exit `No value provided for option '<flag>'.`,   *)
(* where <flag> is the token as typed.                                     *)
(***************************************************************************)
C4_OptionTakesOneValue ==
    [][ (/\ Scanning
         /\ ~is_help_trigger
         /\ is_flag_shaped
         /\ ~Top.help
         /\ find_slot(TopSchemaOf.arg_to_slot, next_arg) # 0) =>
            LET n == Len(stack)
                pos == find_slot(TopSchemaOf.arg_to_slot, next_arg)
                after == Tail(Top.remaining_args)
            IN  /\ Len(stack') = n
                /\ IF TopSchemaOf.slots[pos].kind = "Flag"
                   THEN /\ stack'[n].remaining_args = after
                        /\ result' = result
                   ELSE IF after = <<>>
                   THEN /\ result'.kind = "Err"
                        /\ result'.status = "Err"
                        /\ starts_with(result'.output,
                                "No value provided for option '" \o next_arg \o "'.")
                   ELSE /\ stack'[n].remaining_args = Tail(after)
                        /\ result'.kind = "none" =>
                             LET v == from_arg_value(TopSchemaOf.slots[pos].ty, Head(after)).val
                             IN  /\ stack'[n].slots[pos] # <<>>
                                 /\ stack'[n].slots[pos][Len(stack'[n].slots[pos])] = v
      ]_vars

\* the option --c, typed as its short alias, is the last token
C4_Witness ==
    /\ result.status = "Err"
    /\ result.output = "No value provided for option '-c'.\n"
    /\ Top.args # <<>>
    /\ Top.args[Len(Top.args)] = "-c"

(***************************************************************************)
(* C5. When the scan of a level ends without error and without help, the   *)
(* call fails exactly when a required positional or option is still empty  *)
(* (or the required subcommand is absent), and the failure text lists each *)
(* empty required positional by name and each empty required option by its *)
(* long name exactly once, in declaration order within its category, and   *)
(* lists no other field.                                                   *)
(***************************************************************************)
C5_missing_positionals(f) ==
    {k \in 1..Len(Schema(f.cmd).positionals) :
        Schema(f.cmd).positionals[k].optionality = "required" /\ f.positionals[k] = <<>>}

C5_missing_options(f) ==
    {k \in 1..Len(Schema(f.cmd).slots) :
        /\ Schema(f.cmd).slots[k].kind = "Value"
        /\ Schema(f.cmd).slots[k].optionality = "required"
        /\ f.slots[k] = <<>>}

C5_subcommand_missing(f) ==
    /\ Schema(f.cmd).subcommand.present
    /\ Schema(f.cmd).subcommand.required
    /\ f.subcommand = <<>>

\* the place of the entry for name in the report (0 when it has none)
C5_place(output, name) ==
    LET occ == occurrences(output, NEWLINE_INDENT \o name)
    IN  IF occ = {} THEN 0 ELSE CHOOSE i \in occ : \A j \in occ : i <= j

\* the part of the report that lists fields: the text before the list of
\* subcommand names
C5_field_sections(output) ==
    LET occ == occurrences(output, "One of the following subcommands must be present:")
    IN  IF occ = {} THEN output
        ELSE SubSeq(output, 1, (CHOOSE i \in occ : \A j \in occ : i <= j) - 1)

C5_MissingNamesExact ==
    [][ (LoopEnded /\ ~Top.help /\ AfterEnv.ok) =>
           LET sch == TopSchemaOf
               mp == C5_missing_positionals(AfterEnv.frame)
               mo == C5_missing_options(AfterEnv.frame)
               out == C5_field_sections(result'.output)
           IN  IF mp = {} /\ mo = {} /\ ~C5_subcommand_missing(AfterEnv.frame)
               THEN result'.status # "Err"
               ELSE /\ result'.kind = "Err"
                    /\ result'.status = "Err"
                    /\ \A k \in 1..Len(sch.positionals) :
                          Cardinality(occurrences(out, NEWLINE_INDENT \o sch.positionals[k].name))
                             = IF k \in mp THEN 1 ELSE 0
                    /\ \A k \in 1..Len(sch.slots) :
                          Cardinality(occurrences(out, NEWLINE_INDENT \o sch.slots[k].long))
                             = IF k \in mo THEN 1 ELSE 0
                    /\ \A k \in 1..Len(sch.arg_to_slot) :
                          sch.arg_to_slot[k][1] # sch.slots[sch.arg_to_slot[k][2]].long =>
                             occurrences(out, NEWLINE_INDENT \o sch.arg_to_slot[k][1]) = {}
                    /\ \A k1, k2 \in mp :
                          k1 < k2 => C5_place(out, sch.positionals[k1].name)
                                        < C5_place(out, sch.positionals[k2].name)
                    /\ \A k1, k2 \in mo :
                          k1 < k2 => C5_place(out, sch.slots[k1].long)
                                        < C5_place(out, sch.slots[k2].long)
      ]_vars

\* x --c x: positional a and option --c are supplied, b and --r are not
C5_Witness ==
    /\ Top.cmd = "req"
    /\ Top.positionals[1] # <<>>
    /\ Top.slots[1] # <<>>
    /\ result.status = "Err"
    /\ result.output = "Required positional arguments not provided:\n    b\n"
                         \o "Required options not provided:\n    --r\n"

(***************************************************************************)
(* C6. The deficiency report consists of the sections of the categories    *)
(* that have something missing, in the order positionals, options,         *)
(* subcommand (`help` first, then the static and the dynamic names), each  *)
(* section starting on a line of its own; with nothing missing the check   *)
(* succeeds and there is no message.                                       *)
(***************************************************************************)
C6_sections(mr) ==
    (IF mr.positional_args # <<>>
     THEN <<push_names("Required positional arguments not provided:", mr.positional_args)>>
     ELSE <<>>)
    \o (IF mr.options # <<>>
        THEN <<push_names("Required options not provided:", mr.options)>>
        ELSE <<>>)
    \o (IF mr.subcommands # <<>>
        THEN <<push_names("One of the following subcommands must be present:",
                          <<"help">> \o mr.subcommands[1])>>
        ELSE <<>>)

C6_SectionsOnOwnLines ==
    [][ (LoopEnded /\ ~Top.help /\ AfterEnv.ok) =>
           LET mr == append_missing_requirements(TopSchemaOf, AfterEnv.frame)
           IN  IF C6_sections(mr) = <<>>
               THEN result'.status # "Err" /\ result'.output = ""
               ELSE /\ result'.kind = "Err"
                    /\ result'.status = "Err"
                    /\ result'.output = join(C6_sections(mr), "\n") \o "\n"
      ]_vars

(***************************************************************************)
(* C7. If the help flag is set when the scan of a level ends without a     *)
(* scan error, the call returns the success early exit with the help text  *)
(* of that level, whatever its slots hold: no requirement is checked and   *)
(* no value is returned, neither to the caller nor to a parent level.      *)
(***************************************************************************)
C7_HelpWinsAtEnd ==
    [][ (LoopEnded /\ Top.help) =>
           /\ result'.kind = "Err"
           /\ result'.status = "Ok"
           /\ result'.output = "Usage: " \o join(Top.cmd_name, " ") \o "\n"
           /\ stack' = stack
      ]_vars

\* help was returned although required fields of the level are missing
C7_Witness ==
    /\ result.status = "Ok"
    /\ Top.help
    /\ C5_missing_positionals(Top) # {}
    /\ C5_missing_options(Top) # {}
    /\ C5_subcommand_missing(Top)

(***************************************************************************)
(* C8. If help was triggered at a level before a token that matches a      *)
(* subcommand, the level does not render its own help: the child is called *)
(* with `help` put in front of the remaining tokens and with the command   *)
(* path extended by the subcommand name, and unless the child fails the    *)
(* outcome is the success early exit with the help text of the deepest     *)
(* matched subcommand; no value is returned from a child that was given    *)
(* the forwarded help.                                                     *)
(***************************************************************************)
C8_HelpForwardedToSubcommand ==
    [][ /\ (Scanning /\ ~is_help_trigger /\ ~is_flag_shaped
              /\ matched_subcommand # "" /\ Top.help) =>
             LET n == Len(stack)
             IN  /\ Len(stack') = n + 1
                 /\ stack'[n + 1].args = <<"help">> \o Tail(Top.remaining_args)
                 /\ stack'[n + 1].cmd_name = Append(Top.cmd_name, matched_subcommand)
                 /\ result' = result
        /\ (/\ result.kind = "none"
            /\ \E i \in 1..(Len(stack) - 1) : stack[i].pc = "call" /\ stack[i].help) =>
             /\ Len(stack') >= Len(stack)
             /\ result'.kind # "Ok"
             /\ result'.kind = "Err" =>
                  \/ result'.status = "Err"
                  \/ /\ result'.status = "Ok"
                     /\ result'.output = help_func(stack'[Len(stack')].cmd_name)
      ]_vars

(***************************************************************************)
(* C9. Once help has been triggered at a level, a later token of that      *)
(* level that is not a matched subcommand name ends the parse with a       *)
(* failure early exit; for a token that begins with a dash the text is the *)
(* trailing-arguments message.                                             *)
(***************************************************************************)
C9_NothingAfterHelp ==
    [][ (/\ Scanning
         /\ Top.help
         /\ ~(/\ TopSchemaOf.subcommand.present
              /\ match_subcommand(TopSchemaOf.subcommand, next_arg) # "")) =>
            /\ result'.kind = "Err"
            /\ result'.status = "Err"
            /\ starts_with_dash(next_arg) => result'.output = TrailingArgumentsMsg
      ]_vars

(***************************************************************************)
(* C10. After a token has matched a subcommand the parent level takes no   *)
(* further token: the child is given exactly the tokens after the          *)
(* subcommand name, in order (with at most a `help` in front), and from    *)
(* then on the parent's slots, positional cursor, end-of-options flag and  *)
(* remaining tokens never change.                                          *)
(***************************************************************************)
C10_ParentStopsAtSubcommand ==
    [][ /\ \A i \in 1..Len(stack) :
             ((i < Len(stack) \/ stack[i].subcommand # <<>>) /\ i <= Len(stack')) =>
                /\ stack'[i].slots = stack[i].slots
                /\ stack'[i].positionals = stack[i].positionals
                /\ stack'[i].positional_index = stack[i].positional_index
                /\ stack'[i].options_ended = stack[i].options_ended
                /\ stack'[i].remaining_args = stack[i].remaining_args
        /\ \A i \in 1..(Len(stack) - 1) :
             /\ stack[i + 1].args \in {stack[i].remaining_args,
                                       <<"help">> \o stack[i].remaining_args}
             /\ consumed(stack[i]) # <<>>
             /\ consumed(stack[i])[Len(consumed(stack[i]))]
                  = stack[i + 1].cmd_name[Len(stack[i + 1].cmd_name)]
             /\ stack[i].args = consumed(stack[i]) \o stack[i].remaining_args
        /\ (Scanning /\ ~is_help_trigger /\ ~is_flag_shaped /\ matched_subcommand # "") =>
             LET n == Len(stack)
             IN  /\ Len(stack') = n + 1
                 /\ stack'[n].remaining_args = Tail(Top.remaining_args)
                 /\ stack'[n].slots = Top.slots
                 /\ stack'[n].positionals = Top.positionals
                 /\ stack'[n].positional_index = Top.positional_index
                 /\ stack'[n].options_ended = Top.options_ended
      ]_vars

\* first --b x: the child has taken --b and x, the parent's switch --b and
\* positionals are as they were when `first` matched
C10_Witness ==
    /\ Len(stack) = 2
    /\ stack[1].remaining_args = <<"--b", "x">>
    /\ stack[2].remaining_args = <<>>
    /\ stack[2].slots[1]
    /\ stack[2].positionals[1] = <<"x">>
    /\ ~stack[1].slots[1]
    /\ stack[1].positionals = <<<<>>, <<>>>>

(***************************************************************************)
(* C11. A token that is the canonical name, the short alias or a synonym   *)
(* of a subcommand starts the same child parse whichever of them it is:    *)
(* the child of that subcommand, with the canonical name appended to the   *)
(* command path (so the same value and the same help text follow); a token *)
(* that is none of a subcommand's declared names starts no child parse.    *)
(***************************************************************************)
C11_AliasesInterchangeable ==
    [][ (/\ Scanning
         /\ ~is_help_trigger
         /\ ~is_flag_shaped
         /\ ~Top.options_ended
         /\ TopSchemaOf.subcommand.present) =>
            LET n == Len(stack)
                subs == TopSchemaOf.subcommand.subcommands
                named == {i \in 1..Len(subs) : next_arg \in declared_names(subs[i])}
                rest == Tail(Top.remaining_args)
            IN  IF named # {}
                THEN /\ Len(stack') = n + 1
                     /\ \E i \in named :
                          stack'[n + 1] =
                             new_frame(subs[i], Append(Top.cmd_name, subs[i]),
                                       IF Top.help THEN <<"help">> \o rest ELSE rest)
                ELSE Len(stack') = n
      ]_vars

(***************************************************************************)
(* C12. As stated: a dash-prefixed token in flag position (before the end  *)
(* of options, not `--`, not a help trigger) that is not exactly a         *)
(* registered flag name always ends the parse with the failure early exit  *)
(* `Unrecognized argument: <token>`, and fills no slot.                    *)
(***************************************************************************)
C12_supplied_unregistered ==
    /\ Scanning
    /\ ~Top.options_ended
    /\ starts_with_dash(next_arg)
    /\ next_arg # "--"
    /\ ~contains(TopSchemaOf.help_triggers, next_arg)
    /\ \A i \in 1..Len(TopSchemaOf.arg_to_slot) : TopSchemaOf.arg_to_slot[i][1] # next_arg

C12_AlwaysUnrecognized ==
    [][ C12_supplied_unregistered =>
           /\ result'.kind = "Err"
           /\ result'.status = "Err"
           /\ result'.output = "Unrecognized argument: " \o next_arg \o "\n"
           /\ Len(stack') = Len(stack)
           /\ stack'[Len(stack)].slots = Top.slots
           /\ stack'[Len(stack)].positionals = Top.positionals
      ]_vars

(***************************************************************************)
(* C12, amended. Such a token always ends the parse with a failure early   *)
(* exit and fills no slot; the text is `Unrecognized argument: <token>`,   *)
(* except that after help was triggered at that level it is the            *)
(* trailing-arguments message.                                             *)
(***************************************************************************)
C12_FlagMatchingExact ==
    [][ C12_supplied_unregistered =>
           /\ result'.kind = "Err"
           /\ result'.status = "Err"
           /\ result'.output = IF Top.help THEN TrailingArgumentsMsg
                               ELSE "Unrecognized argument: " \o next_arg \o "\n"
           /\ Len(stack') = Len(stack)
           /\ stack'[Len(stack)].slots = Top.slots
           /\ stack'[Len(stack)].positionals = Top.positionals
      ]_vars

\* -a --foo=x: the equals-joined token is refused after a switch was set
C12_Witness ==
    /\ Top.cmd = "flags"
    /\ Top.slots[1]
    /\ Top.slots[3] = <<>>
    /\ result.status = "Err"
    /\ result.output = "Unrecognized argument: --foo=x\n"

(***************************************************************************)
(* C13. An option whose scalar slot (required, optional or defaulted)      *)
(* already holds a value fails, under whichever of its names it is typed,  *)
(* with `duplicate values provided`, and the first value stays; a value    *)
(* for a repeating option is never refused as a duplicate: when it is      *)
(* coerced it is appended after the values the slot holds, and the other   *)
(* slots are untouched.                                                    *)
(***************************************************************************)
C13_slot_of(sch, t) ==
    sch.arg_to_slot[CHOOSE i \in 1..Len(sch.arg_to_slot) : sch.arg_to_slot[i][1] = t][2]

C13_DuplicateAndRepeat ==
    [][ (/\ Scanning
         /\ ~is_help_trigger
         /\ is_flag_shaped
         /\ ~Top.help
         /\ \E i \in 1..Len(TopSchemaOf.arg_to_slot) : TopSchemaOf.arg_to_slot[i][1] = next_arg
         /\ TopSchemaOf.slots[C13_slot_of(TopSchemaOf, next_arg)].kind = "Value"
         /\ Len(Top.remaining_args) > 1) =>
            LET n == Len(stack)
                pos == C13_slot_of(TopSchemaOf, next_arg)
                desc == TopSchemaOf.slots[pos]
                value == Top.remaining_args[2]
                v == from_arg_value(desc.ty, value)
            IN  /\ Len(stack') = n
                /\ \A k \in 1..Len(Top.slots) : k # pos => stack'[n].slots[k] = Top.slots[k]
                /\ IF desc.optionality = "repeating"
                   THEN IF v.ok
                        THEN /\ result' = result
                             /\ stack'[n].slots[pos] = Top.slots[pos] \o <<v.val>>
                        ELSE /\ result'.status = "Err"
                             /\ occurrences(result'.output, "duplicate values provided") = {}
                             /\ stack'[n].slots[pos] = Top.slots[pos]
                   ELSE IF Top.slots[pos] # <<>>
                        THEN /\ result'.kind = "Err"
                             /\ result'.status = "Err"
                             /\ result'.output = "Error parsing option '" \o next_arg
                                                   \o "' with value '" \o value
                                                   \o "': duplicate values provided\n"
                             /\ stack'[n].slots[pos] = Top.slots[pos]
                        ELSE v.ok => (result' = result /\ stack'[n].slots[pos] = <<v.val>>)
      ]_vars

\* --foo x --bar x: the second value of foo, given under the synonym --bar,
\* is refused and the first one is still there
C13_Witness ==
    /\ Top.cmd = "flags"
    /\ Top.slots[3] = <<"x">>
    /\ result.status = "Err"
    /\ result.output = "Error parsing option '--bar' with value 'x': duplicate values provided\n"

\* --n x --n --foo: the repeating option holds both values in input order
C13_WitnessRepeat ==
    /\ Top.cmd = "flags"
    /\ Top.args = <<"--n", "x", "--n", "--foo">>
    /\ Top.slots[4] = <<"x", "--foo">>

(***************************************************************************)
(* C14. The scan is fail-fast. A token that causes a terminal error        *)
(* (unrecognized token, option without value, coercion or duplicate error, *)
(* dash token after help) ends the parse at once with the failure early    *)
(* exit for that token; a token that causes none leaves the result open;   *)
(* once a result is returned nothing more is consumed or changed, so the   *)
(* tokens after the failing one are never looked at; and a failure that    *)
(* does not come from a token (the missing-requirements report) arises     *)
(* only when every token of the level has been taken without error.        *)
(***************************************************************************)
\* the failure text next_arg causes in the innermost frame, "" when it
\* causes none
C14_error_text ==
    LET sch == TopSchemaOf
        t == next_arg
        after == Tail(Top.remaining_args)
        reg == {i \in 1..Len(sch.arg_to_slot) : sch.arg_to_slot[i][1] = t}
    IN  IF ~Top.options_ended /\ contains(sch.help_triggers, t) THEN ""
        ELSE IF ~Top.options_ended /\ starts_with_dash(t)
        THEN IF t = "--" THEN ""
             ELSE IF Top.help THEN TrailingArgumentsMsg
             ELSE IF reg = {} THEN "Unrecognized argument: " \o t \o "\n"
             ELSE LET pos == sch.arg_to_slot[CHOOSE i \in reg : TRUE][2]
                      desc == sch.slots[pos]
                  IN  IF desc.kind = "Flag" THEN ""
                      ELSE IF after = <<>>
                      THEN "No value provided for option '" \o t \o "'.\n"
                      ELSE LET v == from_arg_value(desc.ty, Head(after))
                               pre == "Error parsing option '" \o t \o "' with value '"
                                         \o Head(after) \o "': "
                           IN  IF desc.optionality # "repeating" /\ Top.slots[pos] # <<>>
                               THEN pre \o "duplicate values provided\n"
                               ELSE IF ~v.ok THEN pre \o v.err \o "\n"
                               ELSE ""
        ELSE IF matched_subcommand # "" THEN ""
        ELSE IF Top.positional_index >= Len(sch.positionals)
        THEN "Unrecognized argument: " \o t \o "\n"
        ELSE LET desc == sch.positionals[Top.positional_index + 1]
                 v == from_arg_value(desc.ty, t)
             IN  IF ~v.ok
                 THEN "Error parsing positional argument '" \o desc.name
                         \o "' with value '" \o t \o "': " \o v.err \o "\n"
                 ELSE ""

C14_FailFast ==
    [][ /\ result.kind # "none" => UNCHANGED vars
        /\ (Scanning /\ C14_error_text # "") =>
              /\ result'.kind = "Err"
              /\ result'.status = "Err"
              /\ result'.output = C14_error_text
              /\ Len(stack') = Len(stack)
              /\ \A i \in 1..(Len(stack) - 1) : stack'[i] = stack[i]
        /\ (Scanning /\ C14_error_text = "") => result' = result
        /\ (result.kind = "none" /\ result'.status = "Err" /\ ~Scanning) =>
              /\ Top.remaining_args = <<>> \/ Top.pc = "after_loop"
              /\ ~Top.help
              /\ result'.output =
                    IF AfterEnv.ok
                    THEN err_on_any(append_missing_requirements(TopSchemaOf, AfterEnv.frame)).output
                    ELSE AfterEnv.err
      ]_vars

\* --fo -ab: the failure is the one of the first token and the second one,
\* which would fail too, was never taken
C14_Witness ==
    /\ Top.args = <<"--fo", "-ab">>
    /\ Top.remaining_args = <<"-ab">>
    /\ result.status = "Err"
    /\ result.output = "Unrecognized argument: --fo\n"

(***************************************************************************)
(* C15. As stated: every failure early-exit text the parser returns is     *)
(* newline-terminated.                                                     *)
(***************************************************************************)
C15_newline_terminated(s) == Len(s) > 0 /\ SubSeq(s, Len(s), Len(s)) = "\n"

C15_AllFailuresEndWithNewline ==
    result.status = "Err" => C15_newline_terminated(result.output)

(***************************************************************************)
(* C15, amended. Every failure early-exit text is newline-terminated       *)
(* (unrecognized argument, missing option value, coercion or duplicate     *)
(* error, missing-requirements report), except the trailing-after-help     *)
(* message, which ends with its full stop.                                 *)
(***************************************************************************)
C15_FailuresEndWithNewline ==
    result.status = "Err" =>
        IF result.output = TrailingArgumentsMsg
        THEN ~C15_newline_terminated(result.output)
        ELSE C15_newline_terminated(result.output)

\* a missing-requirements report was returned
C15_Witness ==
    /\ result.status = "Err"
    /\ Top.cmd = "req"
    /\ Top.remaining_args = <<>>
    /\ result.output = "Required positional arguments not provided:\n    a\n    b\n"
                         \o "Required options not provided:\n    --c\n    --r\n"

(***************************************************************************)
(* C16. Once the end-of-options flag of a level is set (by `--` or by the  *)
(* greedy positional), a token equal to one of the level's subcommand      *)
(* names starts no child parse: it goes to positional handling, which      *)
(* stores it as the content of a positional or refuses it.                 *)
(***************************************************************************)
C16_NoSubcommandAfterEndOfOptions ==
    [][ (/\ Scanning
         /\ Top.options_ended
         /\ TopSchemaOf.subcommand.present
         /\ contains(TopSchemaOf.subcommand.subcommands, next_arg)) =>
            LET n == Len(stack)
            IN  /\ Len(stack') = n
                /\ stack'[n].pc = "scan"
                /\ stack'[n].subcommand = <<>>
                /\ \/ result'.status = "Err"
                   \/ \E k \in 1..Len(Top.positionals) :
                         stack'[n].positionals =
                            [Top.positionals EXCEPT ![k] = Append(@, next_arg)]
      ]_vars

(***************************************************************************)
(* C17. Redaction does not depend on the values: when redact_arg_values    *)
(* returns a list for two argument lists that differ only in a token that  *)
(* is, in both, the value given to an option or to a positional, the two   *)
(* lists are equal; and every element of a returned list is the command    *)
(* name, the name of a subcommand, a flag among the tokens or the name of  *)
(* a positional.                                                           *)
(***************************************************************************)
RECURSIVE C17_is_value(_, _, _, _)
\* for each token of toks, whether it is the value of an option or of a
\* positional of cmd or of the subcommand that takes over; npos counts the
\* positional values of cmd so far
C17_is_value(cmd, toks, ended, npos) ==
    IF toks = <<>> THEN <<>>
    ELSE LET sch == Schema(cmd)
             t == Head(toks)
         IN  IF ended THEN <<TRUE>> \o C17_is_value(cmd, Tail(toks), TRUE, npos + 1)
             ELSE IF contains(sch.help_triggers, t)
             THEN <<FALSE>> \o C17_is_value(cmd, Tail(toks), FALSE, npos)
             ELSE IF starts_with_dash(t)
             THEN IF t = "--" THEN <<FALSE>> \o C17_is_value(cmd, Tail(toks), TRUE, npos)
                  ELSE IF is_option_token(sch, t) /\ Len(toks) > 1
                  THEN <<FALSE, TRUE>> \o C17_is_value(cmd, Tail(Tail(toks)), FALSE, npos)
                  ELSE <<FALSE>> \o C17_is_value(cmd, Tail(toks), FALSE, npos)
             ELSE IF contains(sch.subcommand.subcommands, t)
             THEN <<FALSE>> \o C17_is_value(t, Tail(toks), FALSE, 0)
             ELSE <<TRUE>> \o C17_is_value(cmd, Tail(toks),
                                            sch.last_is_greedy
                                               /\ npos + 1 >= Len(sch.positionals),
                                            npos + 1)

C17_names(cmd) ==
    LET sch == Schema(cmd)
    IN  {cmd} \cup {sch.arg_to_slot[i][1] : i \in 1..Len(sch.arg_to_slot)}
              \cup {sch.positionals[i].name : i \in 1..Len(sch.positionals)}

C17_RedactionIgnoresValues ==
    /\ (result.kind = "Ok" /\ stack[1].redact) =>
          \A k \in 1..Len(result.value[1]) :
             \/ k = 1 /\ result.value[1][k] = "cmdname"
             \/ \E cmd \in Commands : result.value[1][k] \in C17_names(cmd)
    /\ (result.kind = "Ok" /\ prior.second = "redact_arg_values") =>
          LET a == prior.args
              b == stack[1].args
              va == C17_is_value(stack[1].cmd, a, FALSE, 0)
              vb == C17_is_value(stack[1].cmd, b, FALSE, 0)
          IN  (\A i \in 1..Len(a) : a[i] # b[i] => (va[i] /\ vb[i]))
                 => result.value = prior.value

C18_is_coercion_error(output) ==
    \/ occurrences(output, "': invalid digit found in string\n") # {}
    \/ occurrences(output, "': cannot parse integer from empty string\n") # {}

RECURSIVE C19_cli_values(_, _)
C19_cli_values(toks, flag) ==
    IF Len(toks) < 2 THEN <<>>
    ELSE IF Head(toks) \in {"--height", "--pilot-nickname"}
         THEN (IF Head(toks) = flag THEN <<toks[2]>> ELSE <<>>)
              \o C19_cli_values(Tail(Tail(toks)), flag)
         ELSE C19_cli_values(Tail(toks), flag)

\* what an option of type ty holds, given the values of the command line
\* and the variable of the environment
C19_expected(ty, cli, var) ==
    IF cli # <<>> THEN <<from_arg_value(ty, cli[1]).val>>
    ELSE IF var # <<>> THEN <<from_arg_value(ty, var[1]).val>>
    ELSE <<>>

\* C19: for GoUp, whose options height (required) and pilot_nickname fall
\* back to GO_UP_HEIGHT and GO_UP_PILOT, once the scan of the command line
\* has ended without an error and without help: a successful parse holds for
\* each option the value of the command line when there is one, whatever the
\* environment holds, and the value of the variable only when the command
\* line gave none; and --height is reported as a missing required option
\* exactly when neither the command line nor GO_UP_HEIGHT gives a height.
C19_EnvFallback ==
    [][ (Top.cmd = "goup" /\ LoopEnded /\ ~Top.help) =>
           LET h == C19_cli_values(Top.args, "--height")
               p == C19_cli_values(Top.args, "--pilot-nickname")
           IN  /\ result'.kind = "Ok" =>
                     /\ result'.value[1].slots[2]
                           = C19_expected("usize", h, env["GO_UP_HEIGHT"])
                     /\ result'.value[1].slots[3]
                           = C19_expected("String", p, env["GO_UP_PILOT"])
               /\ (result'.output = "Required options not provided:\n    --height\n")
                     <=> (h = <<>> /\ env["GO_UP_HEIGHT"] = <<>>)
      ]_vars

\* the command line gives a height while GO_UP_HEIGHT and GO_UP_PILOT are
\* set (case 1 of test_env_var_option): the parse has succeeded
C19_Witness ==
    /\ stack[1].cmd = "goup"
    /\ stack[1].args = <<"--height", "5">>
    /\ env["GO_UP_HEIGHT"] = <<"10">>
    /\ env["GO_UP_PILOT"] = <<"x">>
    /\ result.kind = "Ok"
    /\ result.value[1].slots[2] = <<5>>
    /\ result.value[1].slots[3] = <<"x">>

\* the height is in the environment only (case 2) and the parse has
\* succeeded with it
C19_WitnessEnvOnly ==
    /\ stack[1].cmd = "goup"
    /\ stack[1].args = <<>>
    /\ env["GO_UP_HEIGHT"] = <<"10">>
    /\ result.kind = "Ok"
    /\ result.value[1].slots[2] = <<10>>

\* the height is neither on the command line nor in the environment
\* (case 4) and is reported missing
C19_WitnessMissing ==
    /\ stack[1].cmd = "goup"
    /\ stack[1].args = <<"-j">>
    /\ env["GO_UP_HEIGHT"] = <<>>
    /\ result.output = "Required options not provided:\n    --height\n"


(***************************************************************************)
(* Help output: the rendered text of HelpInfo::help and the structured     *)
(* metadata of ArgsInfo::get_args_info, for a struct declaring flags only. *)
(***************************************************************************)

\* Most flags a struct of SpecHelp declares.
MaxFlags == 3

INDENT == "  "

DESCRIPTION_INDENT == 20

SECTION_SEPARATOR == "\n\n"

\* the flags a struct declares, as the derive describes them: Basic of
\* args_info_tests.rs, and a flag whose name fills the description column
DeclarableFlags ==
    { [short |-> "", long |-> "--power", description |-> "power on",
       optionality |-> "Optional", kind |-> "Switch", arg_name |-> ""],
      [short |-> "", long |-> "--required", description |-> "needed",
       optionality |-> "Required", kind |-> "Option", arg_name |-> "required"],
      [short |-> "s", long |-> "--speed", description |-> "optional speed",
       optionality |-> "Optional", kind |-> "Option", arg_name |-> "speed"],
      [short |-> "", long |-> "--link-to-follow-up", description |-> "repeatable",
       optionality |-> "Repeating", kind |-> "Option", arg_name |-> "url"] }

\* the implicit help flag
HELP_FLAG ==
    [short |-> "", long |-> "--help", description |-> "display usage information",
     optionality |-> "Optional", kind |-> "Switch", arg_name |-> ""]

\* the declarations of at most n flags, each flag declared once
RECURSIVE FlagLists(_)
FlagLists(n) ==
    IF n = 0 THEN {<<>>}
    ELSE LET shorter == FlagLists(n - 1)
         IN  shorter \cup UNION { {Append(fs, f) :
                                      f \in DeclarableFlags \ {fs[k] : k \in 1..Len(fs)}} :
                                   fs \in {u \in shorter : Len(u) = n - 1} }

RECURSIVE spaces(_)
spaces(n) == IF n <= 0 THEN "" ELSE " " \o spaces(n - 1)

\* write_description for a description that fits on its line: the name
\* indented, then the description at column DESCRIPTION_INDENT, on a line of
\* its own when the name reaches that column
write_description(out, name, description) ==
    LET line == INDENT \o name
    IN  IF description = "" THEN out \o "\n" \o line
        ELSE IF Len(line) < DESCRIPTION_INDENT
             THEN out \o "\n" \o line \o spaces(DESCRIPTION_INDENT - Len(line)) \o description
             ELSE out \o "\n" \o line \o "\n" \o spaces(DESCRIPTION_INDENT) \o description

\* HelpFlagInfo::help_usage
help_usage(flag) ==
    LET required == flag.optionality = "Required"
    IN  (IF required THEN "" ELSE "[")
        \o (IF flag.short # "" THEN "-" \o flag.short ELSE flag.long)
        \o (IF flag.kind = "Option"
            THEN " <" \o flag.arg_name
                 \o (IF flag.optionality = "Repeating" THEN "..." ELSE "") \o ">"
            ELSE "")
        \o (IF required THEN "" ELSE "]")

\* HelpFlagInfo::help_description
help_description(out, flag) ==
    write_description(out,
        (IF flag.short # "" THEN "-" \o flag.short \o ", " ELSE "") \o flag.long,
        flag.description)

RECURSIVE usage_of_flags(_)
usage_of_flags(flags) ==
    IF flags = <<>> THEN "" ELSE " " \o help_usage(Head(flags)) \o usage_of_flags(Tail(flags))

RECURSIVE descriptions_of_flags(_, _)
descriptions_of_flags(out, flags) ==
    IF flags = <<>> THEN out
    ELSE descriptions_of_flags(help_description(out, Head(flags)), Tail(flags))

\* HelpInfo::help with the help flag described before the declared flags
HelpInfo_help_HelpFirst(command_name, description, flags) ==
    descriptions_of_flags(
        help_description(
            "Usage: " \o join(command_name, " ") \o usage_of_flags(flags)
               \o SECTION_SEPARATOR \o description
               \o SECTION_SEPARATOR \o "Options:",
            HELP_FLAG),
        flags) \o "\n"

\* HelpInfo::help of a struct without positionals, subcommand, examples,
\* notes and error codes
HelpInfo_help(command_name, description, flags) ==
    help_description(
        descriptions_of_flags(
            "Usage: " \o join(command_name, " ") \o usage_of_flags(flags)
               \o SECTION_SEPARATOR \o description
               \o SECTION_SEPARATOR \o "Options:",
            flags),
        HELP_FLAG) \o "\n"

\* the FlagInfo pushed for a declared flag
FlagInfo(flag) ==
    [short |-> flag.short, long |-> flag.long, description |-> flag.description,
     optionality |-> flag.optionality, kind |-> flag.kind, arg_name |-> flag.arg_name,
     hidden |-> FALSE]

\* impl_args_info_data: the flags of CommandInfoWithArgs, the implicit help
\* flag pushed before the loop over the fields
get_args_info(name, description, flags) ==
    [name |-> name,
     description |-> description,
     flags |-> <<FlagInfo(HELP_FLAG)>> \o [k \in 1..Len(flags) |-> FlagInfo(flags[k])]]

\* a struct declaring flags, before either of its help outputs is asked for
InitHelp ==
    /\ \E flags \in FlagLists(MaxFlags) :
          stack = <<[cmd |-> "Basic", cmd_name |-> <<"cmdname">>,
                     description |-> "Basic command", flags |-> flags]>>
    /\ result = NoResult
    /\ env = NoEnv
    /\ prior = NoPrior

\* the help text is rendered
RenderHelp ==
    /\ result.kind = "none"
    /\ result' = [kind |-> "help", status |-> "Ok", value |-> <<>>,
                  output |-> HelpInfo_help(stack[1].cmd_name, stack[1].description,
                                           stack[1].flags)]
    /\ UNCHANGED <<stack, env, prior>>

\* the structured metadata is asked for
GetArgsInfo ==
    /\ result.kind = "none"
    /\ result' = [kind |-> "ArgsInfo", status |-> "Ok", output |-> "",
                  value |-> <<get_args_info(stack[1].cmd, stack[1].description,
                                            stack[1].flags)>>]
    /\ UNCHANGED <<stack, env, prior>>

NextHelp == RenderHelp \/ GetArgsInfo

SpecHelp == InitHelp /\ [][NextHelp]_vars

(***************************************************************************)
(* C20: order of the options block.                                        *)
(***************************************************************************)

\* the first word of a text
RECURSIVE C20_word(_)
C20_word(text) ==
    IF text = "" \/ SubSeq(text, 1, 1) \in {" ", "\n"} THEN ""
    ELSE SubSeq(text, 1, 1) \o C20_word(SubSeq(text, 2, Len(text)))

\* the long name of the entry of the line that starts after the newline at
\* place k: the line is the indentation, then -s and a comma for a flag with
\* a short name, then the long name
C20_entry(text, k) ==
    IF SubSeq(text, k + 3, k + 4) = "--"
    THEN C20_word(SubSeq(text, k + 3, Len(text)))
    ELSE C20_word(SubSeq(text, k + 7, Len(text)))

RECURSIVE C20_in_order(_, _)
C20_in_order(text, places) ==
    IF places = {} THEN <<>>
    ELSE LET k == CHOOSE i \in places : \A j \in places : i <= j
         IN  <<C20_entry(text, k)>> \o C20_in_order(text, places \ {k})

\* the long names of the entries of the options block of a rendered help
\* text, in the order of the text: the lines after the heading that start
\* with the indentation and a dash
C20_rendered_entries(text) ==
    LET at == CHOOSE k \in 1..Len(text) : SubSeq(text, k, k + 7) = "Options:"
    IN  C20_in_order(text, {k \in at..(Len(text) - 3) :
                               SubSeq(text, k, k + 3) = "\n" \o INDENT \o "-"})

C20_declared(flags) == [k \in 1..Len(flags) |-> flags[k].long]

C20_metadata_entries(info) == [k \in 1..Len(info.flags) |-> info.flags[k].long]

C20_WitnessMetadata ==
    /\ result.kind = "ArgsInfo"
    /\ C20_declared(stack[1].flags) = <<"--speed", "--power">>
    /\ C20_metadata_entries(result.value[1]) = <<"--help", "--speed", "--power">>


(***************************************************************************)
(* C21: from_args of a subcommand enum.                                    *)
(***************************************************************************)

\* C21: from_args of a subcommand enum never panics: called with an empty
\* command name it returns the failure early exit `no subcommand name`, and
\* called with a command name whose last element is the name of no variant
\* it returns the failure early exit `no subcommand matched`.
C21_EnumDoesNotPanic ==
    /\ result.kind # "panic"
    /\ (stack[1].pc = "enum" /\ result.kind # "none") =>
          result = EarlyExit(IF stack[1].cmd_name = <<>>
                             THEN "no subcommand name"
                             ELSE "no subcommand matched", "Err")


(***************************************************************************)
(* Repeated switches: CountVerbose of switches_repeating, its switch given *)
(* again and again.                                                        *)
(***************************************************************************)

\* Most occurrences of the switch on one command line.
MaxOccurrences == 260

\* CountVerbose with a switch of type ty: #[argh(switch, short = 'v')] verbose
CountVerbose(ty) ==
    [help_triggers |-> DefaultHelpTriggers,
     arg_to_slot |-> << <<"--verbose", 1>>, <<"-v", 1>> >>,
     slots |-> << [kind |-> "Flag", long |-> "--verbose", optionality |-> "optional", ty |-> ty] >>,
     positionals |-> <<>>,
     last_is_repeating |-> FALSE,
     last_is_greedy |-> FALSE,
     subcommand |-> NoSubcommand]

\* the locals of from_args of CountVerbose at entry; occurrences counts the
\* tokens taken so far, all of them the switch
InitSwitch ==
    /\ \E ty \in IntegerTypes \cup {"bool"} :
          stack = <<[cmd |-> "countverbose", ty |-> ty, occurrences |-> 0,
                     slots |-> <<Flag_default(ty)>>]>>
    /\ result = NoResult
    /\ env = NoEnv
    /\ prior = NoPrior

\* one more -v or --verbose is taken from the command line
SwitchOccurrence ==
    /\ stack[1].occurrences < MaxOccurrences
    /\ \E arg \in {"-v", "--verbose"} :
          LET r == ParseStructOptions_parse(CountVerbose(stack[1].ty), stack[1].slots, arg, <<>>)
          IN  /\ r.ok
              /\ stack' = <<[stack[1] EXCEPT !.slots = r.slots,
                                             !.occurrences = @ + 1]>>
    /\ UNCHANGED <<result, env, prior>>

NextSwitch == SwitchOccurrence

SpecSwitch == InitSwitch /\ [][NextSwitch]_vars

\* C22: after k occurrences of its flag, through either name, a switch of
\* integer type holds min(k, MAX of its type), and a switch of type bool
\* holds true exactly when k >= 1.
C22_SwitchSaturates ==
    LET k == stack[1].occurrences
        ty == stack[1].ty
    IN  IF ty = "bool"
        THEN stack[1].slots[1] = (k >= 1)
        ELSE stack[1].slots[1] = IF k <= MAX(ty) THEN k ELSE MAX(ty)

\* an i8 switch given once more than i8::MAX times holds i8::MAX
C22_Witness ==
    /\ stack[1].ty = "i8"
    /\ stack[1].occurrences = 128
    /\ stack[1].slots[1] = 127


(***************************************************************************)
(* C23: the greedy positional.                                             *)
(***************************************************************************)

\* C23: on LastRepeatingGreedy (positional a, switch --b, option --c, greedy
\* positional d): storing a token in a moves the cursor to d without setting
\* end-of-options; while d is still empty and no `--` was met, `--` sets
\* end-of-options, a help trigger sets help, --b sets the switch and --c
\* takes the next token as its value; once a token is stored in d,
\* end-of-options is set and every later token that starts with a dash or is
\* a help trigger is appended to d as it is.
C23_GreedyEndsOptionsWhenStored ==
    [][ (Top.cmd = "greedy" /\ Scanning) =>
           LET f == Top
               g == stack'[Len(stack)]
               stored == f.positionals[2] # <<>>
               flag_like == starts_with_dash(next_arg)
                               \/ contains(GreedySchema.help_triggers, next_arg)
           IN  /\ stored => f.options_ended
               /\ (f.positional_index = 0 /\ g.positional_index = 1) =>
                     g.options_ended = f.options_ended
               /\ (stored /\ flag_like) =>
                     /\ g.positionals[2] = Append(f.positionals[2], next_arg)
                     /\ g.slots = f.slots
                     /\ g.help = f.help
                     /\ g.remaining_args = Tail(f.remaining_args)
                     /\ result' = result
               /\ (~stored /\ f.positional_index = 1 /\ ~f.options_ended) =>
                     /\ next_arg = "--" => g.options_ended /\ g.positionals = f.positionals
                     /\ contains(GreedySchema.help_triggers, next_arg) =>
                           g.help /\ g.positionals = f.positionals
                     /\ (next_arg = "--b" /\ ~f.help) =>
                           /\ g.slots[1] = TRUE
                           /\ g.positionals = f.positionals
                           /\ ~g.options_ended
                     /\ (next_arg = "--c" /\ ~f.help /\ Len(f.remaining_args) >= 2
                             /\ f.slots[2] = <<>>) =>
                           /\ g.slots[2] = <<f.remaining_args[2]>>
                           /\ g.remaining_args = Tail(Tail(f.remaining_args))
                           /\ g.positionals = f.positionals
                           /\ ~g.options_ended
      ]_vars

\* x --b x x has been parsed: the switch is set and d holds the two tokens
\* that follow it
C23_Witness ==
    /\ stack[1].cmd = "greedy"
    /\ stack[1].args = <<"x", "--b", "x", "x">>
    /\ result.kind = "Ok"
    /\ result.value[1].slots[1] = TRUE
    /\ result.value[1].positionals[2] = <<"x", "x">>

\* x x --b --c has been parsed: the flags after the first greedy token are
\* in d
C23_WitnessAbsorbed ==
    /\ stack[1].cmd = "greedy"
    /\ stack[1].args = <<"x", "x", "--b", "--c">>
    /\ result.kind = "Ok"
    /\ result.value[1].slots[1] = FALSE
    /\ result.value[1].positionals[2] = <<"x", "--b", "--c">>


(***************************************************************************)
(* C24: subcommand before the positionals of the parent.                   *)
(***************************************************************************)

C24_report == "Required positional arguments not provided:\n    a\n"

\* C24: on WithSubcommand (required positional a, subcommand named a): a
\* token equal to the subcommand name that is neither a help trigger nor
\* taken as a flag starts the child parse, the positionals of the parent
\* staying as they are, also while a is unfilled; and once the child has
\* returned its value the parent makes its own requirement check: with a
\* unfilled the parse fails with the report of the parent naming a, with a
\* filled it succeeds.
C24_SubcommandBeforePositionals ==
    [][ /\ (Top.cmd = "WithSubcommand" /\ Scanning /\ next_arg = "a") =>
              /\ Len(stack') = Len(stack) + 1
              /\ stack'[Len(stack')].cmd = "a"
              /\ stack'[Len(stack')].args
                    = (IF Top.help THEN <<"help">> ELSE <<>>) \o Tail(Top.remaining_args)
              /\ stack'[Len(stack)].positionals = Top.positionals
              /\ result' = result
        /\ (Top.cmd = "WithSubcommand" /\ LoopEnded /\ ~Top.help /\ Top.subcommand # <<>>) =>
              IF Top.positionals[1] = <<>>
              THEN result' = EarlyExit_from(C24_report)
              ELSE result'.kind = "Ok" /\ result'.value[1].subcommand = Top.subcommand
      ]_vars

\* a a a: the first a started the child, which took the two others, and the
\* parent has reported its own positional a as missing
C24_Witness ==
    /\ stack[1].cmd = "WithSubcommand"
    /\ stack[1].args = <<"a", "a", "a">>
    /\ stack[1].subcommand # <<>>
    /\ stack[1].subcommand[1].positionals = << <<"a">>, <<"a">> >>
    /\ result = EarlyExit_from(C24_report)

\* first a a has succeeded
C24_WitnessFirst ==
    /\ stack[1].cmd = "WithSubcommand"
    /\ stack[1].args = <<"first", "a", "a">>
    /\ result.kind = "Ok"
    /\ result.value[1].positionals[1] = <<"first">>
    /\ result.value[1].subcommand[1].positionals[1] = <<"a">>


(***************************************************************************)
(* C25: invariants of a scan.                                              *)
(***************************************************************************)

C25_is_suffix(s, t) ==
    Len(s) <= Len(t) /\ s = SubSeq(t, Len(t) - Len(s) + 1, Len(t))

\* what holds of the locals of one call of parse_struct_args
C25_frame_ok(f) ==
    f.pc # "enum" =>
       LET sch == frame_schema(f)
       IN  /\ C25_is_suffix(f.remaining_args, f.args)
           /\ f.positional_index >= 0
           /\ f.positional_index <= Len(sch.positionals)
           /\ (sch.last_is_repeating /\ sch.positionals # <<>>) =>
                 f.positional_index < Len(sch.positionals)

\* C25: in every state, in every active call, the remaining tokens are a
\* suffix of the arguments of the call and the positional cursor is within
\* the declared positionals, below their number when the last one is
\* repeating; in every step the cursor of a call does not decrease and its
\* end-of-options flag, once set, stays set; every iteration of the scan
\* leaves a strictly shorter suffix of the remaining tokens; and an
\* iteration made with end-of-options set takes one token, changes no flag
\* or option slot and does not set help.
C25_ScanInvariants ==
    /\ [](\A i \in 1..Len(stack) : C25_frame_ok(stack[i]))
    /\ [][ /\ \A i \in 1..Len(stack) :
                 (i <= Len(stack') /\ stack[i].pc # "enum") =>
                    /\ stack'[i].positional_index >= stack[i].positional_index
                    /\ (stack[i].options_ended => stack'[i].options_ended)
           /\ Scanning =>
                 LET g == stack'[Len(stack)]
                 IN  /\ Len(g.remaining_args) < Len(Top.remaining_args)
                     /\ C25_is_suffix(g.remaining_args, Top.remaining_args)
                     /\ (Top.options_ended) =>
                           /\ g.remaining_args = Tail(Top.remaining_args)
                           /\ g.slots = Top.slots
                           /\ g.help = Top.help
          ]_vars

\* x -- --b has been scanned by the top-level call: the cursor is on the
\* repeating positional, end-of-options is set and --b is stored as a value
C25_Witness ==
    /\ stack[1].cmd = "top"
    /\ stack[1].args = <<"x", "--", "--b", "--help">>
    /\ stack[1].remaining_args = <<"--help">>
    /\ stack[1].options_ended
    /\ stack[1].positional_index = 1
    /\ stack[1].positionals[2] = <<"--b">>
    /\ stack[1].slots[1] = FALSE


(***************************************************************************)
(* C26: termination.                                                       *)
(***************************************************************************)

\* C26: every parse returns; every iteration of a scan leaves the call with
\* fewer remaining tokens; a step that is not an iteration of the scan is
\* taken only when no token remains or a subcommand has matched; and a child
\* call receives fewer tokens than its parent received, the prepended `help`
\* included.
C26_Terminates ==
    /\ [][ /\ Scanning =>
                 Len(stack'[Len(stack)].remaining_args) < Len(Top.remaining_args)
           /\ (~Scanning /\ Top.pc # "enum") =>
                 (Top.remaining_args = <<>> \/ Top.subcommand # <<>>)
           /\ (Len(stack') > Len(stack)) =>
                 Len(stack'[Len(stack')].args) < Len(Top.args)
         ]_vars
    /\ <>(result.kind # "none")

\* help first second: first was called with help prepended and called
\* second in its turn, both have returned and so has the top-level call
C26_Witness ==
    /\ stack[1].cmd = "top"
    /\ stack[1].args = <<"help", "first", "second">>
    /\ result.kind # "none"
    /\ Len(stack) = 1
    /\ stack[1].subcommand # <<>>
    /\ stack[1].subcommand[1].subcommand # <<>>


(***************************************************************************)
(* C27: disposition of the early exits.                                    *)
(***************************************************************************)

\* C27: the help flag of a call is set only by an iteration of its scan
\* whose token is one of its help triggers, end-of-options not being set (a
\* forwarded help is such a token of the child); an early exit of success
\* disposition is returned only at the end of the scan of a call whose help
\* flag is set, one of whose consumed tokens is one of its help triggers,
\* and carries the help text of that call; every other early exit has
\* failure disposition; and no call whose help flag is set when its scan
\* ends returns a populated result.
C27_SuccessOnlyFromHelp ==
    [][ /\ (Top.pc # "enum" /\ ~Top.help /\ Len(stack') >= Len(stack)
               /\ stack'[Len(stack)].help) =>
              (Scanning /\ contains(TopSchemaOf.help_triggers, next_arg)
                 /\ ~Top.options_ended)
        /\ (result.kind = "none" /\ result'.kind = "Err") =>
              IF LoopEnded /\ Top.help
              THEN /\ result'.status = "Ok"
                   /\ result'.output = help_func(Top.cmd_name)
                   /\ \E k \in 1..(Len(Top.args) - Len(Top.remaining_args)) :
                         contains(TopSchemaOf.help_triggers, Top.args[k])
              ELSE result'.status = "Err"
        /\ (LoopEnded /\ Top.help) =>
              /\ result'.kind # "Ok"
              /\ Len(stack') = Len(stack)
      ]_vars

\* x --help on the command with required options: the help text with
\* success disposition, whatever is missing
C27_Witness ==
    /\ stack[1].cmd = "req"
    /\ stack[1].args = <<"x", "--help">>
    /\ result = EarlyExit(help_func(<<"cmdname">>), "Ok")


(***************************************************************************)
(* C28: the value of an option.                                            *)
(***************************************************************************)

\* the slot of the option arg names in the flag table, 0 when arg names no
\* option
C28_option_slot(sch, arg) ==
    LET hits == {k \in 1..Len(sch.arg_to_slot) :
                    /\ sch.arg_to_slot[k][1] = arg
                    /\ sch.slots[sch.arg_to_slot[k][2]].kind = "Value"}
    IN  IF hits = {} THEN 0 ELSE sch.arg_to_slot[CHOOSE k \in hits : TRUE][2]

\* C28: when the scan, before end-of-options and without help, takes a token
\* that names an option and another token follows, that token is consumed as
\* the value whatever it is: help and end-of-options stay as they are, no
\* child call starts, the positionals and the other slots are untouched, the
\* scan resumes two tokens further, and the slot of the option holds the
\* coerced token unless the parse fails on its coercion or on a duplicate.
C28_ValueNotClassified ==
    [][ (Scanning /\ ~Top.options_ended /\ ~Top.help
            /\ ~contains(TopSchemaOf.help_triggers, next_arg)
            /\ C28_option_slot(TopSchemaOf, next_arg) # 0
            /\ Len(Top.remaining_args) >= 2) =>
           LET f == Top
               g == stack'[Len(stack)]
               pos == C28_option_slot(TopSchemaOf, next_arg)
               desc == TopSchemaOf.slots[pos]
               value == f.remaining_args[2]
               coerced == parse_func(desc, next_arg, value)
           IN  /\ Len(stack') = Len(stack)
               /\ g.help = f.help
               /\ g.options_ended = f.options_ended
               /\ g.positionals = f.positionals
               /\ g.positional_index = f.positional_index
               /\ g.subcommand = f.subcommand
               /\ g.remaining_args = Tail(Tail(f.remaining_args))
               /\ \A k \in 1..Len(f.slots) : k # pos => g.slots[k] = f.slots[k]
               /\ IF ~coerced.ok \/ (desc.optionality # "repeating" /\ f.slots[pos] # <<>>)
                  THEN result'.status = "Err" /\ g.slots[pos] = f.slots[pos]
                  ELSE /\ result' = result
                       /\ g.slots[pos] = Append(f.slots[pos], coerced.val)
      ]_vars

\* --c -- help first on the top-level command: `--` is the value of --c and
\* help is then taken as a help trigger, end-of-options not being set
C28_Witness ==
    /\ stack[1].cmd = "top"
    /\ stack[1].args = <<"--c", "--", "help", "first">>
    /\ stack[1].slots[2] = <<"--">>
    /\ ~stack[1].options_ended
    /\ stack[1].help
    /\ stack[1].remaining_args = <<"first">>


(***************************************************************************)
(* C29: tokens that start with a dash.                                     *)
(***************************************************************************)

\* C29: an iteration of the scan made before end-of-options on a token that
\* starts with a dash, a lone dash and a negative number included, stores
\* nothing in a positional, leaves the cursor where it is and starts no
\* child call; the token is taken as a help trigger (help is set), as the
\* separator `--` (end-of-options is set), as a registered flag (one token
\* or two are consumed, or the parse fails in the option), or the parse
\* fails with `Unrecognized argument` or, help being set, with the error of
\* the trailing arguments.
C29_DashNeverPositional ==
    [][ (Scanning /\ ~Top.options_ended /\ next_arg # ""
            /\ SubSeq(next_arg, 1, 1) = "-") =>
           LET f == Top
               g == stack'[Len(stack)]
               registered == \E k \in 1..Len(TopSchemaOf.arg_to_slot) :
                                 TopSchemaOf.arg_to_slot[k][1] = next_arg
           IN  /\ Len(stack') = Len(stack)
               /\ g.positionals = f.positionals
               /\ g.positional_index = f.positional_index
               /\ g.subcommand = f.subcommand
               /\ IF contains(TopSchemaOf.help_triggers, next_arg)
                  THEN g.help /\ result' = result
                  ELSE IF next_arg = "--"
                  THEN g.options_ended /\ result' = result
                  ELSE IF f.help
                  THEN result' = EarlyExit_from(TrailingArgumentsMsg)
                  ELSE IF registered
                  THEN \/ result' = result /\ g.slots # f.slots
                       \/ result' = result /\ g.slots = f.slots
                             /\ \E k \in 1..Len(f.slots) : f.slots[k] = TRUE
                       \/ result'.status = "Err" /\ g.slots = f.slots
                  ELSE result' = EarlyExit_from("Unrecognized argument: " \o next_arg \o "\n")
      ]_vars

\* first -5 on WithSubcommand: the negative number after the positional has
\* failed the parse
C29_Witness ==
    /\ stack[1].cmd = "WithSubcommand"
    /\ stack[1].args = <<"first", "-5">>
    /\ stack[1].positionals = << <<"first">>, <<>> >>
    /\ stack[1].positional_index = 1
    /\ result = EarlyExit_from("Unrecognized argument: -5\n")

\* a lone dash fails the parse in the same way
C29_WitnessLoneDash ==
    /\ stack[1].cmd = "WithSubcommand"
    /\ stack[1].args = <<"-">>
    /\ result = EarlyExit_from("Unrecognized argument: -\n")


(***************************************************************************)
(* C30: help forwarded to a child with its own help triggers.              *)
(***************************************************************************)

\* C30: a child called by a parent whose help was triggered takes the
\* forwarded help as help, whatever its own help triggers are: once it has
\* taken its first token, the forwarded one, its help flag is set, the token
\* is stored in no positional and the parse has not failed.
C30_ForwardedHelpTriggersChild ==
    \A i \in 2..Len(stack) :
       (/\ stack[i - 1].pc = "call"
        /\ stack[i - 1].help
        /\ Len(stack[i].remaining_args) = Len(stack[i].args) - 1) =>
          /\ stack[i].help
          /\ \A k \in 1..Len(stack[i].positionals) : stack[i].positionals[k] = <<>>
          /\ result.status # "Err"

====
